---- MODULE Spec2Model ----
(***************************************************************************)
(* Model of the account-provisioning pipeline of the banking application:  *)
(* signUp / signIn / getUserInfo (user actions) and createDwollaCustomer   *)
(* (payment-rail actions), run by concurrent server-action requests        *)
(* against the identity store (Appwrite) and the payment rail (Dwolla);    *)
(* logoutAccount; the error classification of AuthForm.onSubmit;           *)
(* exchangePublicToken (bank linking) and getTransactions (paged sync      *)
(* against the aggregation provider, Plaid).                               *)
(*                                                                         *)
(* Every `await` of the source is an interleaving point: one action per    *)
(* awaited remote call, together with the synchronous code that follows    *)
(* it up to the next await (or up to the return / throw).                  *)
(*                                                                         *)
(* Strings are sequences of tokens.  The tokenisation is chosen so that    *)
(* every marker the source searches for with String.includes is a whole    *)
(* run of tokens; includes, toLowerCase and concatenation are computed on  *)
(* the token sequences.                                                    *)
(***************************************************************************)
EXTENDS Integers, Sequences, FiniteSets, TLC

\* ------------------------------------------------------------------ bounds
\* Number of requests (signUp / signIn calls) issued over a run: by two clients
\* whose requests interleave, and by one client issuing them one after another.
MaxCalls == 2
MaxSeqCalls == 3

Procs == {1, 2}
Emails == {"a@x.com"}
Passwords == {"secret1", "other"}

None == 0

\* ----------------------------------------------------------------- strings
\* String.prototype.includes on token sequences: pat occurs as a contiguous run.
Includes(msg, pat) ==
    \E i \in 1..(Len(msg) - Len(pat) + 1) : SubSeq(msg, i, i + Len(pat) - 1) = pat

\* String.prototype.toLowerCase, token by token.
LowerTok(t) ==
    CASE t = "PROFILE" -> "profile"
      [] t = "_DATA_MISSING" -> "_data_missing"
      [] t = "Validation error" -> "validation error"
      [] t = "Dwolla" -> "dwolla"
      [] t = "Invalid credentials" -> "invalid credentials"
      [] t = "Invalid email or password. Please try again." ->
             "invalid email or password. please try again."
      [] t = "Server Error" -> "server error"
      [] t = "An account with this email " -> "an account with this email "
      [] t = "A user with the same id, email, or phone " ->
             "a user with the same id, email, or phone "
      [] t = "A customer with the specified email " ->
             "a customer with the specified email "
      [] t = "must be a US " -> "must be a us "
      [] t = "Error creating user " -> "error creating user "
      [] t = "Error creating user account" -> "error creating user account"
      [] t = "Your account exists but " -> "your account exists but "
      [] t = "Invalid access token" -> "invalid access token"
      [] t = "Rate limit exceeded" -> "rate limit exceeded"
      [] t = "User not found" -> "user not found"
      [] OTHER -> t

ToLowerCase(msg) == [i \in DOMAIN msg |-> LowerTok(msg[i])]

\* An Error object: message and the optional numeric `code` (None when absent).
Err(msg, code) == [message |-> msg, code |-> code]

\* Messages of the Error objects the source constructs.
MsgAlreadyExists ==
    <<"An account with this email ", "already exists", ". Please sign in instead.">>
MsgAccountCreate == <<"Error creating user account">>
MsgUserProfile == <<"Error creating user ", "profile", ". Please try again.">>
MsgProfileMissing ==
    <<"PROFILE", "_DATA_MISSING", ": ", "Your account exists but ", "profile",
      " data", " is missing",
      ". This may have occurred during sign-up. Please try signing up again or contact support.">>
MsgInvalidCredentials == <<"Invalid email or password. Please try again.">>
MsgNoLocation == <<"Dwolla", " customer created but no location URL returned.">>
MsgDwollaGeneric ==
    <<"Dwolla", " customer creation failed",
      ". Please check your Dwolla credentials and try again.">>
ValidationPrefix == <<"Validation error", ": ">>
DwollaFailedPrefix == <<"Dwolla", " customer creation failed", ": ">>

\* Errors raised by the identity store (AppwriteException: message + code).
AppwriteUserExists ==
    Err(<<"A user with the same id, email, or phone ", "already exists",
          " in this project.">>, 409)
AppwriteInvalidCredentials ==
    Err(<<"Invalid credentials", ". Please check the email and password.">>, 401)
AppwriteServerError == Err(<<"Server Error">>, 500)
AppwriteRateLimit == Err(<<"Rate limit exceeded">>, 429)

\* ------------------------------------------------- createDwollaCustomer
\* Field errors the payment rail embeds in a rejected customer creation.
FieldState == [path |-> <<"/", "state">>, message |-> <<"must be a US ", "state">>]
FieldEmail ==
    [path |-> <<"/", "email">>,
     message |-> <<"A customer with the specified email ", "already exists", ".">>]
FieldNoPath == [path |-> <<>>, message |-> <<"is required">>]

\* What dwollaClient.post("customers", ...) can do: answer (with or without a
\* location header) or reject with an error object {message, response: {body}}.
Created(loc) ==
    [kind |-> "created", location |-> loc, hasBody |-> FALSE, errors |-> <<>>,
     isArray |-> FALSE, bodyMessage |-> <<>>, message |-> <<>>, jsonErrors |-> <<>>]
Rejected(hasBody, isArray, errors, bodyMessage, message, jsonErrors) ==
    [kind |-> "error", location |-> FALSE, hasBody |-> hasBody, errors |-> errors,
     isArray |-> isArray, bodyMessage |-> bodyMessage, message |-> message,
     jsonErrors |-> jsonErrors]

RespCreated == Created(TRUE)
RespNoLocation == Created(FALSE)
RespInvalidState == Rejected(TRUE, TRUE, <<FieldState>>, <<"Validation error(s) present.">>, <<>>, <<>>)
RespDuplicate ==
    Rejected(TRUE, TRUE, <<FieldEmail, FieldNoPath>>, <<"Validation error(s) present.">>, <<>>, <<>>)
RespBodyMessage == Rejected(TRUE, FALSE, <<>>, <<"Invalid access token">>, <<>>, <<>>)
RespBodyOnly == Rejected(TRUE, FALSE, <<>>, <<>>, <<>>, <<>>)
RespJsonMessage == Rejected(FALSE, FALSE, <<>>, <<>>, <<"{json}">>, <<FieldState>>)
RespPlainMessage == Rejected(FALSE, FALSE, <<>>, <<>>, <<"fetch failed">>, <<>>)
RespEmpty == Rejected(FALSE, FALSE, <<>>, <<>>, <<>>, <<>>)

AllDwollaResponses ==
    {RespCreated, RespNoLocation, RespInvalidState, RespDuplicate, RespBodyMessage,
     RespBodyOnly, RespJsonMessage, RespPlainMessage, RespEmpty}

\* The answers drawn while signUp runs: the customer is created (the 201 answer
\* carries its location), rejected for its fields, or the request fails.
DwollaResponses == {RespCreated, RespInvalidState, RespDuplicate, RespPlainMessage}

\* String.prototype.replace(tok, ''): drops the first occurrence of the token.
RECURSIVE RemoveFirst(_, _)
RemoveFirst(s, tok) ==
    IF s = <<>> THEN <<>>
    ELSE IF Head(s) = tok THEN Tail(s)
    ELSE <<Head(s)>> \o RemoveFirst(Tail(s), tok)

\* A field text that keeps the path as the provider sent it.
FieldTextRawPath(e) == e.path \o <<": ">> \o e.message

\* `${e.path?.replace('/', '') || 'field'}: ${e.message}`
FieldText(e) ==
    LET field == RemoveFirst(e.path, "/")
    IN  (IF field = <<>> THEN <<"field">> ELSE field) \o <<": ">> \o e.message

\* errors.map(...).join(', ')
RECURSIVE JoinFields(_)
JoinFields(errors) ==
    IF errors = <<>> THEN <<>>
    ELSE IF Len(errors) = 1 THEN FieldText(errors[1])
    ELSE FieldText(errors[1]) \o <<", ">> \o JoinFields(Tail(errors))

\* JSON.stringify(errorBody) of a body that carries no message.
BodyJson == <<"{body}">>

\* The Error createDwollaCustomer throws for a rejected request (catch block).
\* A message that parses as JSON with embedded errors throws the validation
\* error inside the inner try, whose own catch swallows it; the generic
\* "creation failed" error with the raw message follows.
DwollaCatch(resp) ==
    IF resp.hasBody
    THEN IF resp.isArray
         THEN Err(ValidationPrefix \o JoinFields(resp.errors), None)
         ELSE Err(DwollaFailedPrefix \o
                  (IF resp.bodyMessage # <<>> THEN resp.bodyMessage ELSE BodyJson), None)
    ELSE IF resp.message # <<>>
         THEN Err(DwollaFailedPrefix \o resp.message, None)
         ELSE Err(MsgDwollaGeneric, None)

\* A createDwollaCustomer that returns the location header without testing it.
createDwollaCustomerUntested(resp) ==
    IF resp.kind = "created"
    THEN [threw |-> FALSE, error |-> Err(<<>>, None)]
    ELSE [threw |-> TRUE, error |-> DwollaCatch(resp)]

\* createDwollaCustomer: the location of the created customer, or a thrown
\* Error.  It has no path that returns an absent value.
createDwollaCustomer(resp) ==
    IF resp.kind = "created"
    THEN IF resp.location
         THEN [threw |-> FALSE, error |-> Err(<<>>, None)]
         ELSE [threw |-> TRUE, error |-> Err(DwollaFailedPrefix \o MsgNoLocation, None)]
    ELSE [threw |-> TRUE, error |-> DwollaCatch(resp)]

\* The provider created a customer record (whatever the caller learns of it).
DwollaCreates(resp) == resp.kind = "created"

\* The provider rejected the request with a list of field validation errors.
IsFieldRejection(resp) == resp.kind = "error" /\ resp.hasBody /\ resp.isArray

\* ------------------------------------------------------------------ state
VARIABLES
    principals,   \* identity store: authentication principals {id, email, password}
    nextUid,      \* ID.unique() for principals
    documents,    \* identity store: profile documents of the user collection, in creation order
    customers,    \* payment rail: customer records, in creation order (location = index)
    sessions,     \* identity store: open sessions {id, userId}
    nextSid,      \* next session id
    cookie,       \* the "appwrite-session" cookie of each client
    proc,         \* each client's request: position and locals
    calls         \* number of requests issued so far

VARIABLES
    form,         \* AuthForm: the submitted request, the error it caught, the message shown
    dw,           \* one createDwollaCustomer call: the provider's answer and the outcome
    link,         \* one exchangePublicToken request: position and locals
    banks,        \* identity store: documents of the bank collection, in creation order
    sync,         \* getTransactions: the provider's pages, the loop's locals, the calls sent
    acct,         \* one getAccount request: position and locals
    agg,          \* one getAccounts request: the per-bank fetches and the result
    hist          \* one rendering of the transaction-history page

authVars == <<principals, nextUid, documents, customers, sessions, nextSid, cookie, proc, calls>>
aux == <<form, dw, link, banks, sync, acct, agg, hist>>
vars == <<authVars, aux>>

NoError == Err(<<>>, None)
NoResult == [kind |-> "none", doc |-> None, error |-> NoError]
Returned(d) == [kind |-> "value", doc |-> d, error |-> NoError]
Threw(e) == [kind |-> "error", doc |-> None, error |-> e]

\* Principals registered under an email.
PrincipalsOf(e) == {u \in principals : u.email = e}
\* Positions of the profile documents whose userId is uid.
DocsOf(uid) == {i \in DOMAIN documents : documents[i].userId = uid}
\* A principal exists for (e, pw) and has no profile document.
Orphaned(e, pw) ==
    \E u \in principals : u.email = e /\ u.password = pw /\ DocsOf(u.id) = {}

Idle(p) == proc[p].pc \in {"idle", "done"}

\* Locals of a request at its entry.  Besides the locals of the source the record
\* keeps what the request did (failedStep: the step of the try block that threw;
\* recovering; probe; rcFailed: the step of the recovery path that failed;
\* fieldError: the validation error of the last rejected customer creation;
\* looked / docExisted: whether a profile document existed when the lookup ran;
\* docsMade, customersMade, cookieSet, outcome) and how it started
\* (orphanAtStart; afterHeal: the client's previous request was a signUp with
\* the same credentials that found the principal without a profile document
\* and recovered it).
NewCall(p, op, e, pw) ==
    [pc |-> "entry", op |-> op, email |-> e, password |-> pw,
     newUserAccount |-> None, dwollaCustomerUrl |-> None,
     existingUserId |-> None, testSession |-> None, sessionUser |-> None,
     session |-> None, newUser |-> None, recoveredUser |-> None,
     result |-> NoResult,
     failedStep |-> "", recovering |-> FALSE, probe |-> "none", rcFailed |-> "",
     fieldError |-> NoError, looked |-> FALSE, docExisted |-> FALSE, docsMade |-> 0,
     customersMade |-> 0, cookieSet |-> FALSE,
     afterHeal |-> /\ proc[p].op = "signUp" /\ proc[p].outcome = "healed"
                   /\ proc[p].orphanAtStart
                   /\ proc[p].email = e /\ proc[p].password = pw,
     orphanAtStart |-> Orphaned(e, pw), outcome |-> "none"]

IdleProc ==
    [pc |-> "idle", op |-> "none", email |-> "", password |-> "",
     newUserAccount |-> None, dwollaCustomerUrl |-> None,
     existingUserId |-> None, testSession |-> None, sessionUser |-> None,
     session |-> None, newUser |-> None, recoveredUser |-> None,
     result |-> NoResult,
     failedStep |-> "", recovering |-> FALSE, probe |-> "none", rcFailed |-> "",
     fieldError |-> NoError, looked |-> FALSE, docExisted |-> FALSE, docsMade |-> 0,
     customersMade |-> 0, cookieSet |-> FALSE,
     afterHeal |-> FALSE, orphanAtStart |-> FALSE, outcome |-> "none"]

\* The identity store and the payment rail are empty and no request is running.
AuthRest ==
    /\ principals = {}
    /\ nextUid = 1
    /\ documents = <<>>
    /\ customers = <<>>
    /\ sessions = {}
    /\ nextSid = 1
    /\ cookie = [p \in Procs |-> None]
    /\ proc = [p \in Procs |-> IdleProc]
    /\ calls = 0

\* ------------------------------------------------------------- identity store
\* account.createEmailPasswordSession: the principals the credentials open a
\* session for.
Authenticates(e, pw) == {u \in principals : u.email = e /\ u.password = pw}

\* Errors createEmailPasswordSession raises; invalid credentials is the answer
\* to credentials that match no principal.
SessionErrors(e, pw) ==
    {AppwriteRateLimit} \cup
    (IF Authenticates(e, pw) = {} THEN {AppwriteInvalidCredentials} ELSE {})

\* getUserInfo: the first document listDocuments returns for the userId, or null
\* when there is none; a failing lookup is caught and also yields null.
getUserInfo(userId, lookupFails) ==
    IF lookupFails THEN None
    ELSE IF DocsOf(userId) = {} THEN None
    ELSE CHOOSE i \in DocsOf(userId) : \A j \in DocsOf(userId) : i <= j

\* The profile document signUp stores for a principal and its customer.
ProfileDocument(userId, e, url) ==
    [userId |-> userId, email |-> e, dwollaCustomerUrl |-> url]

\* ------------------------------------------------------------------ signUp
\* The test that opens the recovery path (case-sensitive, on the raw message).
IsAlreadyExistsError(e) ==
    \/ Includes(e.message, <<"already exists">>)
    \/ Includes(e.message, <<"already registered">>)
    \/ e.code = 409

\* catch block of signUp for an error thrown by `step` of the try block: enter
\* the recovery path, or re-throw the error.
SignUpCatch(r, e, step) ==
    IF IsAlreadyExistsError(e)
    THEN [r EXCEPT !.pc = "rc_probe", !.failedStep = step, !.recovering = TRUE]
    ELSE [r EXCEPT !.pc = "done", !.failedStep = step, !.result = Threw(e),
                   !.outcome = "error"]

\* catch block of the recovery path: what signUp throws for recoveryError.
RecoveryCatch(e) ==
    IF Includes(e.message, <<"already exists">>) THEN e
    ELSE Err(MsgAlreadyExists, None)

RecoveryFails(r, e, step) ==
    [r EXCEPT !.pc = "done", !.result = Threw(RecoveryCatch(e)), !.outcome = "error",
              !.rcFailed = step]

\* signUp entry: account.create(ID.unique(), email, password, name) and the
\* check of its result
SignUpEntry(p, limit) ==
    /\ Idle(p)
    /\ calls < limit
    /\ calls' = calls + 1
    /\ \E em \in Emails, pw \in Passwords :
        LET r == NewCall(p, "signUp", em, pw) IN
        \/ /\ PrincipalsOf(em) # {}
           /\ proc' = [proc EXCEPT ![p] = SignUpCatch(r, AppwriteUserExists, "create")]
           /\ UNCHANGED <<principals, nextUid>>
        \/ /\ PrincipalsOf(em) = {}
           /\ principals' = principals \cup {[id |-> nextUid, email |-> em, password |-> pw]}
           /\ nextUid' = nextUid + 1
           /\ proc' = [proc EXCEPT ![p] =
                  [r EXCEPT !.newUserAccount = nextUid, !.pc = "su_dwolla"]]
        \/ /\ \E e \in {AppwriteServerError, Err(MsgAccountCreate, None)} :
                  proc' = [proc EXCEPT ![p] = SignUpCatch(r, e, "create")]
           /\ UNCHANGED <<principals, nextUid>>
    /\ UNCHANGED <<documents, customers, sessions, nextSid, cookie, aux>>

SU_AccountCreate(p) == SignUpEntry(p, MaxCalls)

\* createDwollaCustomer({...userData, type: "personal"}); a failure is always a
\* throw, so the `!dwollaCustomerUrl` branch with its cleanup is never taken.
SU_CreateDwollaCustomer(p) ==
    LET r == proc[p] IN
    /\ r.pc = "su_dwolla"
    /\ \E resp \in DwollaResponses :
          LET out == createDwollaCustomer(resp)
              made == IF DwollaCreates(resp) THEN 1 ELSE 0
              r1 == [r EXCEPT !.customersMade = @ + made,
                              !.fieldError = IF IsFieldRejection(resp)
                                             THEN out.error ELSE @]
          IN  /\ customers' = IF DwollaCreates(resp)
                              THEN Append(customers,
                                     [forUser |-> r.newUserAccount, email |-> r.email])
                              ELSE customers
              /\ proc' = [proc EXCEPT ![p] =
                     IF out.threw THEN SignUpCatch(r1, out.error, "dwolla")
                     ELSE [r1 EXCEPT !.dwollaCustomerUrl = Len(customers'),
                                     !.pc = "su_document"]]
    /\ UNCHANGED <<principals, nextUid, documents, sessions, nextSid, cookie, calls, aux>>

\* database.createDocument(..., {...userData, userId, dwollaCustomerId, dwollaCustomerUrl})
SU_CreateDocument(p) ==
    LET r == proc[p] IN
    /\ r.pc = "su_document"
    /\ \/ /\ documents' = Append(documents,
                 ProfileDocument(r.newUserAccount, r.email, r.dwollaCustomerUrl))
          /\ proc' = [proc EXCEPT ![p] =
                 [r EXCEPT !.docsMade = @ + 1, !.pc = "su_session",
                           !.newUser = Len(documents')]]
       \/ /\ proc' = [proc EXCEPT ![p] = SignUpCatch(r, AppwriteServerError, "document")]
          /\ UNCHANGED documents
       \/ /\ proc' = [proc EXCEPT ![p] = [r EXCEPT !.pc = "su_cleanup"]]
          /\ UNCHANGED documents
    /\ UNCHANGED <<principals, nextUid, customers, sessions, nextSid, cookie, calls, aux>>

\* `!newUser`: account.deleteIdentity(newUserAccount.$id) inside its own
\* try/catch (the call removes the principal or fails), then
\* throw "Error creating user profile".
SU_Cleanup(p) ==
    LET r == proc[p] IN
    /\ r.pc = "su_cleanup"
    /\ \/ principals' = {u \in principals : u.id # r.newUserAccount}
       \/ UNCHANGED principals
    /\ proc' = [proc EXCEPT ![p] = SignUpCatch(r, Err(MsgUserProfile, None), "document")]
    /\ UNCHANGED <<nextUid, documents, customers, sessions, nextSid, cookie, calls, aux>>

\* A last step that returns the profile without opening a session.
SU_ReturnWithoutSession(p) ==
    LET r == proc[p] IN
    /\ r.pc = "su_session"
    /\ proc' = [proc EXCEPT ![p] =
           [r EXCEPT !.pc = "done", !.outcome = "created", !.result = Returned(r.newUser)]]
    /\ UNCHANGED <<principals, nextUid, documents, customers, sessions, nextSid, cookie,
                   calls, aux>>

\* account.createEmailPasswordSession, cookies().set, return parseStringify(newUser)
SU_CreateSession(p) ==
    LET r == proc[p] IN
    /\ r.pc = "su_session"
    /\ \/ /\ \E u \in Authenticates(r.email, r.password) :
                sessions' = sessions \cup {[id |-> nextSid, userId |-> u.id]}
          /\ nextSid' = nextSid + 1
          /\ cookie' = [cookie EXCEPT ![p] = nextSid]
          /\ proc' = [proc EXCEPT ![p] =
                 [r EXCEPT !.pc = "done", !.cookieSet = TRUE, !.outcome = "created",
                           !.result = Returned(r.newUser)]]
       \/ /\ \E e \in SessionErrors(r.email, r.password) :
                 proc' = [proc EXCEPT ![p] = SignUpCatch(r, e, "session")]
          /\ UNCHANGED <<sessions, nextSid, cookie>>
    /\ UNCHANGED <<principals, nextUid, documents, customers, calls, aux>>

\* ------------------------------------------------- signUp, recovery path
\* existingAccount.createEmailPasswordSession(email, password): the probe.  Any
\* failure is replaced by the already-exists error.
RC_ProbeSession(p) ==
    LET r == proc[p] IN
    /\ r.pc = "rc_probe"
    /\ \/ /\ \E u \in Authenticates(r.email, r.password) :
                /\ sessions' = sessions \cup {[id |-> nextSid, userId |-> u.id]}
                /\ proc' = [proc EXCEPT ![p] =
                       [r EXCEPT !.existingUserId = u.id, !.testSession = nextSid,
                                 !.probe = "opened", !.pc = "rc_deleteSession"]]
          /\ nextSid' = nextSid + 1
       \/ /\ SessionErrors(r.email, r.password) # {}
          /\ proc' = [proc EXCEPT ![p] =
                 RecoveryFails([r EXCEPT !.probe = "failed"], Err(MsgAlreadyExists, None), "probe")]
          /\ UNCHANGED <<sessions, nextSid>>
    /\ UNCHANGED <<principals, nextUid, documents, customers, cookie, calls, aux>>

\* existingAccount.deleteSession(testSession.$id), still inside the probe's try
RC_DeleteSession(p) ==
    LET r == proc[p] IN
    /\ r.pc = "rc_deleteSession"
    /\ \/ /\ sessions' = {s \in sessions : s.id # r.testSession}
          /\ proc' = [proc EXCEPT ![p] = [r EXCEPT !.pc = "rc_lookup"]]
       \/ /\ UNCHANGED sessions
          /\ proc' = [proc EXCEPT ![p] =
                 RecoveryFails([r EXCEPT !.probe = "failed"], Err(MsgAlreadyExists, None), "probe")]
    /\ UNCHANGED <<principals, nextUid, documents, customers, nextSid, cookie, calls, aux>>

\* getUserInfo({userId: existingUserId}) and the branch on its result
RC_GetUserInfo(p) ==
    LET r == proc[p] IN
    /\ r.pc = "rc_lookup"
    /\ \E lookupFails \in BOOLEAN :
          LET existingUser == getUserInfo(r.existingUserId, lookupFails)
              r1 == [r EXCEPT !.looked = TRUE, !.docExisted = DocsOf(r.existingUserId) # {}]
          IN  proc' = [proc EXCEPT ![p] =
                 IF existingUser = None
                 THEN [r1 EXCEPT !.pc = "rc_dwolla"]
                 ELSE RecoveryFails(r1, Err(MsgAlreadyExists, None), "lookup")]
    /\ UNCHANGED <<principals, nextUid, documents, customers, sessions, nextSid, cookie, calls, aux>>

\* createDwollaCustomer on the recovery path
RC_CreateDwollaCustomer(p) ==
    LET r == proc[p] IN
    /\ r.pc = "rc_dwolla"
    /\ \E resp \in DwollaResponses :
          LET out == createDwollaCustomer(resp)
              made == IF DwollaCreates(resp) THEN 1 ELSE 0
              r1 == [r EXCEPT !.customersMade = @ + made,
                              !.fieldError = IF IsFieldRejection(resp)
                                             THEN out.error ELSE @]
          IN  /\ customers' = IF DwollaCreates(resp)
                              THEN Append(customers,
                                     [forUser |-> r.existingUserId, email |-> r.email])
                              ELSE customers
              /\ proc' = [proc EXCEPT ![p] =
                     IF out.threw THEN RecoveryFails(r1, out.error, "dwolla")
                     ELSE [r1 EXCEPT !.dwollaCustomerUrl = Len(customers'),
                                     !.pc = "rc_document"]]
    /\ UNCHANGED <<principals, nextUid, documents, sessions, nextSid, cookie, calls, aux>>

\* A recovery that stores the document under the id of the account the failed
\* creation left undefined.
RecoveredDocumentNoOwner(r) == ProfileDocument(r.newUserAccount, r.email, r.dwollaCustomerUrl)

\* The document the recovery path stores.
RecoveredDocument(r) == ProfileDocument(r.existingUserId, r.email, r.dwollaCustomerUrl)

\* database.createDocument on the recovery path; a falsy result falls through
\* to the final throw of the already-exists error.
RC_CreateDocument(p) ==
    LET r == proc[p] IN
    /\ r.pc = "rc_document"
    /\ \/ /\ documents' = Append(documents, RecoveredDocument(r))
          /\ proc' = [proc EXCEPT ![p] =
                 [r EXCEPT !.docsMade = @ + 1, !.pc = "rc_session",
                           !.recoveredUser = Len(documents')]]
       \/ /\ proc' = [proc EXCEPT ![p] = RecoveryFails(r, AppwriteServerError, "document")]
          /\ UNCHANGED documents
       \/ /\ proc' = [proc EXCEPT ![p] =
                 [r EXCEPT !.pc = "done", !.outcome = "error", !.rcFailed = "document",
                           !.result = Threw(Err(MsgAlreadyExists, None))]]
          /\ UNCHANGED documents
    /\ UNCHANGED <<principals, nextUid, customers, sessions, nextSid, cookie, calls, aux>>

\* createEmailPasswordSession, cookies().set, return parseStringify(recoveredUser)
RC_CreateSession(p) ==
    LET r == proc[p] IN
    /\ r.pc = "rc_session"
    /\ \/ /\ \E u \in Authenticates(r.email, r.password) :
                sessions' = sessions \cup {[id |-> nextSid, userId |-> u.id]}
          /\ nextSid' = nextSid + 1
          /\ cookie' = [cookie EXCEPT ![p] = nextSid]
          /\ proc' = [proc EXCEPT ![p] =
                 [r EXCEPT !.pc = "done", !.cookieSet = TRUE, !.outcome = "healed",
                           !.result = Returned(r.recoveredUser)]]
       \/ /\ \E e \in SessionErrors(r.email, r.password) :
                 proc' = [proc EXCEPT ![p] = RecoveryFails(r, e, "session")]
          /\ UNCHANGED <<sessions, nextSid, cookie>>
    /\ UNCHANGED <<principals, nextUid, documents, customers, calls, aux>>

\* ------------------------------------------------------------------ signIn
\* A classification that does not look for "profile" in the message.
IsInvalidCredentialsAnyProfile(e) ==
    LET errorMessage == ToLowerCase(e.message)
    IN  \/ Includes(errorMessage, <<"invalid credentials">>)
        \/ Includes(errorMessage, <<"invalid password">>)
        \/ Includes(errorMessage, <<"wrong password">>)
        \/ Includes(errorMessage, <<"user not found">>)
        \/ e.code = 401 /\ Includes(errorMessage, <<"unauthorized">>)

\* The classification of signIn's catch block (on the lower-cased message).
IsInvalidCredentials(e) ==
    LET errorMessage == ToLowerCase(e.message)
        noProfile == ~Includes(errorMessage, <<"profile">>)
    IN  \/ Includes(errorMessage, <<"invalid credentials">>) /\ noProfile
        \/ Includes(errorMessage, <<"invalid password">>) /\ noProfile
        \/ Includes(errorMessage, <<"wrong password">>) /\ noProfile
        \/ Includes(errorMessage, <<"user not found">>) /\ noProfile
        \/ e.code = 401 /\ Includes(errorMessage, <<"unauthorized">>) /\ noProfile

\* A catch block that reports every failure as invalid credentials.
SignInCatchAllInvalid(e) == Err(MsgInvalidCredentials, None)

\* catch block of signIn: the error signIn throws for a caught error.
SignInCatch(e) ==
    IF Includes(e.message, <<"PROFILE", "_DATA_MISSING">>) THEN e
    ELSE IF IsInvalidCredentials(e) THEN Err(MsgInvalidCredentials, None)
    ELSE e

\* signIn entry: account.createEmailPasswordSession(email, password) and
\* cookies().set
SignInEntry(p, limit) ==
    /\ Idle(p)
    /\ calls < limit
    /\ calls' = calls + 1
    /\ \E em \in Emails, pw \in Passwords :
        LET r == NewCall(p, "signIn", em, pw) IN
        \/ /\ \E u \in Authenticates(em, pw) :
                 /\ sessions' = sessions \cup {[id |-> nextSid, userId |-> u.id]}
                 /\ proc' = [proc EXCEPT ![p] =
                        [r EXCEPT !.sessionUser = u.id, !.session = nextSid,
                                  !.cookieSet = TRUE, !.pc = "si_lookup"]]
           /\ nextSid' = nextSid + 1
           /\ cookie' = [cookie EXCEPT ![p] = nextSid]
        \/ /\ \E e \in SessionErrors(em, pw) :
                  proc' = [proc EXCEPT ![p] =
                         [r EXCEPT !.pc = "done", !.outcome = "error",
                                   !.failedStep = "session",
                                   !.result = Threw(SignInCatch(e))]]
           /\ UNCHANGED <<sessions, nextSid, cookie>>
    /\ UNCHANGED <<principals, nextUid, documents, customers, aux>>

SI_CreateSession(p) == SignInEntry(p, MaxCalls)

\* getUserInfo({userId: session.userId}); when it yields null, account.get()
\* is called for logging only and the profile-missing error is thrown.
SI_GetUserInfo(p) ==
    LET r == proc[p] IN
    /\ r.pc = "si_lookup"
    /\ \E lookupFails \in BOOLEAN :
          LET user == getUserInfo(r.sessionUser, lookupFails)
              r1 == [r EXCEPT !.looked = TRUE, !.docExisted = DocsOf(r.sessionUser) # {}]
          IN  proc' = [proc EXCEPT ![p] =
                 IF user = None
                 THEN [r1 EXCEPT !.pc = "done", !.outcome = "error",
                                 !.failedStep = "lookup",
                                 !.result = Threw(SignInCatch(Err(MsgProfileMissing, None)))]
                 ELSE [r1 EXCEPT !.pc = "done", !.outcome = "signedIn",
                                 !.result = Returned(user)]]
    /\ UNCHANGED <<principals, nextUid, documents, customers, sessions, nextSid, cookie, calls, aux>>

\* ------------------------------------------------------------ logoutAccount
ErrNoSession == Err(<<"No session">>, None)

\* A catch block that re-throws what it caught.
LogoutCatchRethrow(e) == Threw(e)

\* catch block of logoutAccount: `return null`.
LogoutCatch(e) == Returned(None)

LogoutFails(r, e, step) ==
    [r EXCEPT !.pc = "done", !.failedStep = step, !.outcome = "error",
              !.result = LogoutCatch(e)]

\* logoutAccount entry: createSessionClient(), which needs the request's
\* session cookie and binds the client to it.
LogoutEntry(p, limit) ==
    /\ Idle(p)
    /\ calls < limit
    /\ calls' = calls + 1
    /\ LET r == NewCall(p, "logout", "", "") IN
       proc' = [proc EXCEPT ![p] =
                  IF cookie[p] = None THEN LogoutFails(r, ErrNoSession, "client")
                  ELSE [r EXCEPT !.session = cookie[p], !.pc = "lo_cookie"]]
    /\ UNCHANGED <<principals, nextUid, documents, customers, sessions, nextSid, cookie, aux>>

\* (await cookies()).delete("appwrite-session")
LO_DeleteCookie(p) ==
    LET r == proc[p] IN
    /\ r.pc = "lo_cookie"
    /\ \/ /\ cookie' = [cookie EXCEPT ![p] = None]
          /\ proc' = [proc EXCEPT ![p] = [r EXCEPT !.pc = "lo_session"]]
       \/ /\ UNCHANGED cookie
          /\ proc' = [proc EXCEPT ![p] = LogoutFails(r, AppwriteServerError, "cookie")]
    /\ UNCHANGED <<principals, nextUid, documents, customers, sessions, nextSid, calls, aux>>

\* account.deleteSession("current"), then the function ends (returns undefined)
LO_DeleteSession(p) ==
    LET r == proc[p] IN
    /\ r.pc = "lo_session"
    /\ \/ /\ r.session \in {x.id : x \in sessions}
          /\ sessions' = {x \in sessions : x.id # r.session}
          /\ proc' = [proc EXCEPT ![p] =
                 [r EXCEPT !.pc = "done", !.outcome = "loggedOut",
                           !.result = Returned(None)]]
       \/ /\ UNCHANGED sessions
          /\ proc' = [proc EXCEPT ![p] =
                 LogoutFails(r, AppwriteServerError, "deleteSession")]
    /\ UNCHANGED <<principals, nextUid, documents, customers, nextSid, cookie, calls, aux>>

\* --------------------------------------------------- AuthForm.onSubmit
\* Number of tokens of a raw upstream error message.
MaxLen == 2

\* String.prototype.replace(pat, ""): drops the first occurrence of the run pat.
RECURSIVE RemoveFirstSeq(_, _)
RemoveFirstSeq(s, pat) ==
    IF Len(s) < Len(pat) THEN s
    ELSE IF SubSeq(s, 1, Len(pat)) = pat THEN SubSeq(s, Len(pat) + 1, Len(s))
    ELSE <<Head(s)>> \o RemoveFirstSeq(Tail(s), pat)

\* The texts the form shows.
MsgFormDefault == <<"An error occurred. Please try again.">>
MsgFormProfile ==
    <<"Your account exists but ", "profile", " data", " is missing",
      ". This may have occurred during sign-up. Please try signing up again with the same email, or contact support if the issue persists.">>
MsgFormNotFound == <<"No account found", " with this email. Please sign up first.">>
MsgFormState ==
    <<"State", " must be a valid 2-letter US state code (e.g., CA, NY, TX). Please use a US state abbreviation.">>

\* A chain that tests the user-not-found markers before the already-exists
\* markers.
FormBranchNotFoundFirst(error) ==
    LET msg == ToLowerCase(error.message) IN
    IF error.message = <<>> THEN "NoMessage"
    ELSE IF Includes(msg, <<"profile", "_data_missing">>) \/ Includes(msg, <<"profile", " data">>)
    THEN "ProfileDataMissing"
    ELSE IF Includes(msg, <<"user not found">>) \/ Includes(msg, <<"no account found">>)
    THEN "UserNotFound"
    ELSE IF Includes(msg, <<"already exists">>) \/ Includes(msg, <<"already registered">>)
    THEN "AccountAlreadyExists"
    ELSE "Default"

\* The branch of the if / else-if chain of the catch block that handles error.
FormBranch(error) ==
    LET msg == ToLowerCase(error.message) IN
    IF error.message = <<>> THEN "NoMessage"
    ELSE IF \/ Includes(msg, <<"profile", "_data_missing">>)
            \/ Includes(msg, <<"profile", " data", " is missing">>)
            \/ Includes(msg, <<"profile", " data">>)
    THEN "ProfileDataMissing"
    ELSE IF Includes(msg, <<"already exists">>) \/ Includes(msg, <<"already registered">>)
    THEN "AccountAlreadyExists"
    ELSE IF Includes(msg, <<"user not found">>) \/ Includes(msg, <<"no account found">>)
    THEN "UserNotFound"
    ELSE IF /\ \/ Includes(msg, <<"invalid credentials">>)
               \/ Includes(msg, <<"invalid password">>)
               \/ Includes(msg, <<"wrong password">>)
               \/ (error.code = 401 /\ Includes(msg, <<"unauthorized">>))
            /\ ~Includes(msg, <<"profile">>)
    THEN "InvalidCredentials"
    ELSE IF Includes(msg, <<"validation error">>) \/ Includes(msg, <<"dwolla">>)
    THEN "Validation"
    ELSE "Default"

\* errorMessage: the text form.setError receives for the caught error.
FormMessage(error) ==
    LET branch == FormBranch(error) IN
    CASE branch = "NoMessage" -> MsgFormDefault
      [] branch = "ProfileDataMissing" -> MsgFormProfile
      [] branch = "AccountAlreadyExists" -> MsgAlreadyExists
      [] branch = "UserNotFound" -> MsgFormNotFound
      [] branch = "InvalidCredentials" -> MsgInvalidCredentials
      [] branch = "Validation" ->
           IF Includes(ToLowerCase(error.message), <<"state">>) THEN MsgFormState
           ELSE RemoveFirstSeq(RemoveFirstSeq(error.message, DwollaFailedPrefix),
                               ValidationPrefix)
      [] OTHER -> RemoveFirstSeq(error.message, <<"PROFILE", "_DATA_MISSING", ": ">>)

\* What signUp throws for an error of its try block when its recovery path
\* does not heal: the already-exists error for an error that opens the
\* recovery path, the error itself otherwise.
SignUpThrown(e) ==
    IF IsAlreadyExistsError(e) THEN Err(MsgAlreadyExists, None) ELSE e

\* Tokens of the raw messages of upstream errors.
Tokens ==
    {"PROFILE", "profile", "_DATA_MISSING", " data", "already exists",
     "already registered", "User not found", "no account found",
     "Invalid credentials", "invalid password", "wrong password", "unauthorized",
     "Validation error", "Dwolla", "state", "fetch failed"}

RECURSIVE TokenSeqs(_)
TokenSeqs(n) ==
    IF n = 0 THEN {<<>>}
    ELSE LET shorter == TokenSeqs(n - 1)
         IN  shorter \cup {Append(m, t) : m \in {x \in shorter : Len(x) = n - 1}, t \in Tokens}

\* The raw errors a submit can meet: token sequences up to MaxLen, and the
\* errors the server actions and the providers construct.
RawErrors ==
    {Err(m, c) : m \in TokenSeqs(MaxLen), c \in {None, 401}}
    \cup {Err(MsgProfileMissing, None), Err(MsgUserProfile, None),
          Err(MsgAccountCreate, None), AppwriteUserExists, AppwriteInvalidCredentials,
          AppwriteServerError, AppwriteRateLimit}
    \cup {createDwollaCustomer(resp).error : resp \in AllDwollaResponses \ {RespCreated}}

FormIdle ==
    [pc |-> "idle", type |-> "none", raw |-> NoError, thrown |-> NoError,
     branch |-> "none", errorMessage |-> <<>>, isLoading |-> FALSE,
     outcome |-> "none", n |-> 0]

\* onSubmit up to its await: setIsLoading(true) and the call of the server
\* action, which is going to meet the upstream error e.
Submitted(type, e) ==
    [FormIdle EXCEPT !.pc = "submitted", !.type = type, !.raw = e, !.isLoading = TRUE]

\* A finally block that leaves the flag as it is.
FinallyKeepsLoading(f) == f

\* finally { setIsLoading(false) }
Finally(f) == [f EXCEPT !.isLoading = FALSE]

FormRest == form = FormIdle

\* type === "sign-in": await signIn(...) meets the upstream error raw; signIn's
\* catch block throws.
Form_SignIn ==
    /\ form.pc = "submitted" /\ form.type = "sign-in"
    /\ form' = [form EXCEPT !.pc = "caught", !.thrown = SignInCatch(form.raw)]
    /\ UNCHANGED <<authVars, dw, link, banks, sync, acct, agg, hist>>

\* type === "sign-up": await signUp(...) meets the upstream error raw.
Form_SignUp ==
    /\ form.pc = "submitted" /\ form.type = "sign-up"
    /\ form' = [form EXCEPT !.pc = "caught", !.thrown = SignUpThrown(form.raw)]
    /\ UNCHANGED <<authVars, dw, link, banks, sync, acct, agg, hist>>

\* catch (error) of onSubmit: classification and form.setError("root", ...),
\* then the finally block
Form_Catch ==
    /\ form.pc = "caught"
    /\ form' = Finally([form EXCEPT !.pc = "shown", !.branch = FormBranch(form.thrown),
                                    !.errorMessage = FormMessage(form.thrown)])
    /\ UNCHANGED <<authVars, dw, link, banks, sync, acct, agg, hist>>

\* Number of submits of the form over a run.
MaxSubmits == 2

\* The errors the server actions and the providers construct.
SubmitErrors ==
    {Err(MsgProfileMissing, None), Err(MsgUserProfile, None),
     Err(MsgAccountCreate, None), AppwriteUserExists, AppwriteInvalidCredentials,
     AppwriteServerError, AppwriteRateLimit, NoError}
    \cup {createDwollaCustomer(resp).error : resp \in AllDwollaResponses \ {RespCreated}}

\* <Button type="submit" disabled={isLoading}>
SubmitDisabled == form.isLoading

\* The user presses the submit button: onSubmit runs up to its await.  The
\* server action is going to raise (meeting an upstream error) or to return.
Form_Submit ==
    /\ form.pc \in {"idle", "shown", "settled"}
    /\ ~SubmitDisabled
    /\ form.n < MaxSubmits
    /\ \E type \in {"sign-in", "sign-up"} :
          \/ \E e \in SubmitErrors :
                form' = [Submitted(type, e) EXCEPT !.n = form.n + 1]
          \/ form' = [FormIdle EXCEPT !.pc = "awaiting", !.type = type,
                                      !.isLoading = TRUE, !.n = form.n + 1]
    /\ UNCHANGED <<authVars, dw, link, banks, sync, acct, agg, hist>>

\* The awaited server action returns a user or nothing: setUser(newUser) for
\* a sign-up that returned one; router.push("/") or the invalid-credentials
\* message for a sign-in; then the finally block.
Form_Returns ==
    /\ form.pc = "awaiting"
    /\ \E returned \in {"user", "nothing"} :
          form' = Finally(
              [form EXCEPT !.pc = "settled",
                           !.outcome = IF returned = "user"
                                       THEN (IF form.type = "sign-up" THEN "userSet" ELSE "pushed")
                                       ELSE (IF form.type = "sign-in" THEN "invalid" ELSE "nothing"),
                           !.errorMessage = IF returned = "nothing" /\ form.type = "sign-in"
                                            THEN MsgInvalidCredentials ELSE @])
    /\ UNCHANGED <<authVars, dw, link, banks, sync, acct, agg, hist>>

\* ------------------------------------- createDwollaCustomer, called alone
\* Number of field errors the provider embeds in one rejection.
MaxErrors == 3

FieldAddress ==
    [path |-> <<"/", "address", "/", "line1">>, message |-> <<"is required">>]
Fields == {FieldState, FieldEmail, FieldNoPath, FieldAddress}

RECURSIVE FieldSeqs(_)
FieldSeqs(n) ==
    IF n = 0 THEN {<<>>}
    ELSE LET shorter == FieldSeqs(n - 1)
         IN  shorter \cup {Append(l, f) : l \in {x \in shorter : Len(x) = n - 1}, f \in Fields}

\* Rejections whose body embeds a list of field errors.
FieldRejections ==
    {Rejected(TRUE, TRUE, l, <<"Validation error(s) present.">>, <<>>, <<>>) :
        l \in FieldSeqs(MaxErrors)}

DwIdle == [pc |-> "idle", resp |-> RespEmpty, threw |-> FALSE, error |-> NoError]
DwRest == dw = DwIdle

\* createDwollaCustomer(newCustomer) meeting the provider's answer dw.resp
DW_CreateDwollaCustomer ==
    /\ dw.pc = "call"
    /\ LET out == createDwollaCustomer(dw.resp)
       IN  dw' = [dw EXCEPT !.pc = "done", !.threw = out.threw, !.error = out.error]
    /\ UNCHANGED <<authVars, form, link, banks, sync, acct, agg, hist>>

\* ------------------------------------------------------ exchangePublicToken
\* Number of exchangePublicToken requests over a run.
MaxLinks == 2

PublicTokens == {"public-1", "public-2"}
\* accountsResponse.data.accounts: the accounts of the item, possibly none.
AccountLists == {<<>>, <<"acc-1">>, <<"acc-2", "acc-1">>}
\* The signed-in user the link is made for.
LinkUser == [id |-> 1, dwollaCustomerId |-> 1]

\* encryptId(accountId): a deterministic encoding of the account id.
EncryptId(id) == <<"base64", id>>

\* undefined / null where a token or URL is expected.
Absent == <<>>

LinkIdle ==
    [pc |-> "idle", n |-> 0, publicToken |-> "", accessToken |-> Absent,
     itemId |-> Absent, accounts |-> <<>>, processorToken |-> Absent,
     dwollaAuthLinks |-> Absent, fundingSourceUrl |-> Absent, failedStep |-> "", authFailed |-> FALSE,
     banksBefore |-> 0, docsMade |-> 0, result |-> "none"]

LinkRest == link = LinkIdle /\ banks = <<>>

\* catch block of exchangePublicToken: logs; the function returns undefined.
LinkAborts(l, step) ==
    [l EXCEPT !.pc = "done", !.failedStep = step, !.result = "undefined"]

\* A test of the funding source URL that lets every value pass.
FundingSourceNeverMissing(url) == FALSE

\* `if (!fundingSourceUrl) throw Error`
FundingSourceMissing(url) == url = Absent

\* exchangePublicToken entry: plaidClient.itemPublicTokenExchange
EP_ItemPublicTokenExchange ==
    /\ link.pc \in {"idle", "done"}
    /\ link.n < MaxLinks
    /\ \E tok \in PublicTokens :
          LET l == [LinkIdle EXCEPT !.n = link.n + 1, !.publicToken = tok,
                                    !.banksBefore = Len(banks)]
          IN  \/ link' = [l EXCEPT !.pc = "ep_accounts",
                                   !.accessToken = <<"access", tok>>,
                                   !.itemId = <<"item", tok>>]
              \/ link' = LinkAborts(l, "exchange")
    /\ UNCHANGED <<authVars, form, dw, banks, sync, acct, agg, hist>>

\* plaidClient.accountsGet and accountData = accounts[0]; reading
\* accountData.account_id of an empty list throws.
EP_AccountsGet ==
    /\ link.pc = "ep_accounts"
    /\ \/ \E accts \in AccountLists :
             link' = IF accts = <<>> THEN LinkAborts(link, "accounts")
                     ELSE [link EXCEPT !.pc = "ep_processor", !.accounts = accts]
       \/ link' = LinkAborts(link, "accounts")
    /\ UNCHANGED <<authVars, form, dw, banks, sync, acct, agg, hist>>

\* plaidClient.processorTokenCreate
EP_ProcessorTokenCreate ==
    /\ link.pc = "ep_processor"
    /\ \/ link' = [link EXCEPT !.pc = "ep_authorization",
                               !.processorToken = <<"processor", link.accounts[1]>>]
       \/ link' = LinkAborts(link, "processor")
    /\ UNCHANGED <<authVars, form, dw, banks, sync, acct, agg, hist>>

\* addFundingSource: createOnDemandAuthorization, whose failure is logged and
\* yields undefined links.
EP_CreateOnDemandAuthorization ==
    /\ link.pc = "ep_authorization"
    /\ \/ link' = [link EXCEPT !.pc = "ep_funding", !.dwollaAuthLinks = <<"links">>]
       \/ link' = [link EXCEPT !.pc = "ep_funding", !.authFailed = TRUE]
    /\ UNCHANGED <<authVars, form, dw, banks, sync, acct, agg, hist>>

\* addFundingSource: createFundingSource, which yields the location header, or
\* nothing when the request fails or the answer has no location; then the
\* test of the URL in exchangePublicToken.
EP_CreateFundingSource ==
    /\ link.pc = "ep_funding"
    /\ \E url \in {<<"funding", link.accounts[1]>>, Absent} :
          LET l == [link EXCEPT !.fundingSourceUrl = url,
                                !.failedStep = IF url = Absent THEN "funding" ELSE @]
          IN  link' = IF FundingSourceMissing(url) THEN LinkAborts(l, "funding")
                      ELSE [l EXCEPT !.pc = "ep_persist"]
    /\ UNCHANGED <<authVars, form, dw, banks, sync, acct, agg, hist>>

\* The document createBankAccount stores.
BankDocument(l) ==
    [userId |-> LinkUser.id, bankId |-> l.itemId, accountId |-> l.accounts[1],
     accessToken |-> l.accessToken, fundingSourceUrl |-> l.fundingSourceUrl,
     shareableId |-> EncryptId(l.accounts[1])]

\* createBankAccount (a failure is logged inside it and yields undefined),
\* revalidatePath, return {publicTokenExchange: "complete"}
EP_CreateBankAccount ==
    /\ link.pc = "ep_persist"
    /\ \/ /\ banks' = Append(banks, BankDocument(link))
          /\ link' = [link EXCEPT !.pc = "done", !.docsMade = @ + 1,
                                   !.result = "complete"]
       \/ /\ UNCHANGED banks
          /\ link' = [link EXCEPT !.pc = "done", !.failedStep = "persist",
                                   !.result = "complete"]
    /\ UNCHANGED <<authVars, form, dw, sync, acct, agg, hist>>

\* ---------------------------------------------------------- getTransactions
\* Pages the provider answers with has_more = true before the last page, and
\* getTransactions calls over a run.
MaxPages == 2
MaxSyncs == 2

\* Transactions as the provider sends them (category: a list, or null; date:
\* a calendar day, written <<day, time of day>> with time of day 0).
TxnCoffee ==
    [transaction_id |-> "t1", name |-> "Coffee", payment_channel |-> "in store",
     account_id |-> "acc-1", amount |-> 5, pending |-> FALSE,
     category |-> <<"Food and Drink", "Coffee Shop">>, date |-> <<3, 0>>, logo_url |-> "logo-1"]
TxnTransfer ==
    [transaction_id |-> "t2", name |-> "Payroll", payment_channel |-> "online",
     account_id |-> "acc-1", amount |-> -900, pending |-> TRUE,
     category |-> Absent, date |-> <<1, 0>>, logo_url |-> ""]

\* data.added of a page, and whether it is an array at all.
AddedLists == {<<>>, <<TxnCoffee>>, <<TxnTransfer, TxnCoffee>>}
Cursors == {"c1", "c2"}

PageBodies ==
    {[added |-> a, addedIsArray |-> TRUE, next_cursor |-> c] : a \in AddedLists, c \in Cursors}
    \cup {[added |-> <<>>, addedIsArray |-> FALSE, next_cursor |-> c] : c \in Cursors}

RECURSIVE PageSeqs(_)
PageSeqs(n) ==
    IF n = 0 THEN {<<>>}
    ELSE LET shorter == PageSeqs(n - 1)
         IN  shorter \cup {Append(l, b) : l \in {x \in shorter : Len(x) = n - 1}, b \in PageBodies}

\* The provider: N pages answered with has_more = true, then one with
\* has_more = false (N = 0 .. MaxPages).
Providers == PageSeqs(MaxPages + 1) \ {<<>>}

\* response.data of the i-th transactionsSync call of one getTransactions call.
SyncData(pages, i) ==
    [added |-> pages[i].added, addedIsArray |-> pages[i].addedIsArray,
     next_cursor |-> pages[i].next_cursor, has_more |-> i < Len(pages)]

\* Failures of plaidClient.transactionsSync: response status and error code.
SyncErrors ==
    {[status |-> 400, error_code |-> "ITEM_LOGIN_REQUIRED"],
     [status |-> 400, error_code |-> "ADDITIONAL_CONSENT_REQUIRED"],
     [status |-> 500, error_code |-> "INTERNAL_SERVER_ERROR"]}
NoSyncError == [status |-> 0, error_code |-> ""]

\* `let cursor: string | undefined = undefined`
UndefinedCursor == "(undefined)"

\* A request that always carries the empty cursor.
RequestCursorAlwaysEmpty(cursor) == ""

\* requestParams.cursor: the cursor held, the empty string on the first call.
RequestCursor(cursor) == IF cursor # UndefinedCursor THEN cursor ELSE ""

\* A loop that stops after every page.
HasMoreNever(data) == FALSE

\* hasMore = data.has_more
HasMore(data) == data.has_more

\* The entry getTransactions builds from a provider transaction.
NormalizeTransaction(t) ==
    [id |-> t.transaction_id, name |-> t.name, paymentChannel |-> t.payment_channel,
     type |-> t.payment_channel, accountId |-> t.account_id, amount |-> t.amount,
     pending |-> t.pending,
     category |-> IF t.category # Absent THEN t.category[1] ELSE "",
     date |-> t.date, image |-> t.logo_url]

\* data.added.map(...)
MapAdded(added) == [i \in DOMAIN added |-> NormalizeTransaction(added[i])]

\* parseStringify(transactions): JSON.parse(JSON.stringify(...)) rebuilds every
\* entry from its keys; all values here are JSON values.
ParseStringify(list) ==
    [i \in DOMAIN list |-> [k \in DOMAIN list[i] |-> list[i][k]]]

SyncIdle(pages) ==
    [pages |-> pages, pc |-> "idle", n |-> 0, accessToken |-> "", hasMore |-> TRUE,
     transactions |-> <<>>, cursor |-> UndefinedCursor, sent |-> <<>>,
     failed |-> FALSE, error |-> NoSyncError, result |-> <<>>]

SyncRest == sync = SyncIdle(<<>>)

\* A catch block that returns the entries gathered before the failure.
SyncCatchKeepsPages(s, e) ==
    [s EXCEPT !.pc = "done", !.failed = TRUE, !.error = e,
              !.result = [i \in DOMAIN s.transactions |-> s.transactions[i]]]

\* catch block of getTransactions: logs the failure; every branch returns
\* parseStringify([]).
SyncCatch(s, e) ==
    [s EXCEPT !.pc = "done", !.failed = TRUE, !.error = e, !.result = ParseStringify(<<>>)]

\* An iteration that maps data.added without testing it: mapping a value that
\* is not an array throws, and the catch block ends the call.
LoopIterationFatal(s, data) ==
    LET s1 == [s EXCEPT !.sent = Append(@, RequestCursor(s.cursor)),
                        !.cursor = data.next_cursor]
    IN  IF ~data.addedIsArray THEN SyncCatch(s1, NoSyncError)
        ELSE LET s2 == [s1 EXCEPT !.transactions = @ \o MapAdded(data.added),
                                  !.hasMore = HasMore(data)]
             IN  IF s2.hasMore THEN [s2 EXCEPT !.pc = "loop"]
                 ELSE [s2 EXCEPT !.pc = "done", !.result = ParseStringify(s2.transactions)]

\* One iteration of `while (hasMore)`: the request with the current cursor,
\* the provider's answer data, and the code up to the next request or to
\* the return.
LoopIteration(s, data) ==
    LET s1 == [s EXCEPT !.sent = Append(@, RequestCursor(s.cursor)),
                        !.cursor = data.next_cursor,
                        !.transactions = IF data.addedIsArray
                                         THEN @ \o MapAdded(data.added) ELSE @,
                        !.hasMore = HasMore(data)]
    IN  IF s1.hasMore THEN [s1 EXCEPT !.pc = "loop"]
        ELSE [s1 EXCEPT !.pc = "done", !.result = ParseStringify(s1.transactions)]

\* What a transactionsSync call issued from state s leads to: the provider's
\* next page, or a failure.
AfterSyncCall(s) ==
    {LoopIteration(s, SyncData(s.pages, Len(s.sent) + 1))}
    \cup {SyncCatch([s EXCEPT !.sent = Append(@, RequestCursor(s.cursor))], e) :
             e \in SyncErrors}

\* getTransactions entry: the locals, the access-token test and the first
\* transactionsSync call.
GT_Entry ==
    /\ sync.pc \in {"idle", "done"}
    /\ sync.n < MaxSyncs
    /\ \E tok \in {"access-1", ""} :
          LET s == [SyncIdle(sync.pages) EXCEPT !.n = sync.n + 1, !.accessToken = tok]
          IN  IF tok = ""
              THEN sync' = [s EXCEPT !.pc = "done", !.result = ParseStringify(<<>>)]
              ELSE sync' \in AfterSyncCall(s)
    /\ UNCHANGED <<authVars, form, dw, link, banks, acct, agg, hist>>

\* A later iteration of the loop: plaidClient.transactionsSync(requestParams)
GT_TransactionsSync ==
    /\ sync.pc = "loop"
    /\ sync' \in AfterSyncCall(sync)
    /\ UNCHANGED <<authVars, form, dw, link, banks, acct, agg, hist>>


\* --------------------------------------------------------------- getAccount
\* Length of the list getTransactions returns and of the list of transfer
\* documents of the bank.
MaxProvider == 2
MaxTransfers == 2

\* new Date(date).getTime(): a day has TicksPerDay instants.
TicksPerDay == 10
GetTime(date) == date[1] * TicksPerDay + date[2]

TxnLunch ==
    [transaction_id |-> "t3", name |-> "Lunch", payment_channel |-> "in store",
     account_id |-> "acc-1", amount |-> 12, pending |-> FALSE,
     category |-> <<"Food and Drink">>, date |-> <<3, 0>>, logo_url |-> ""]

\* Transfer documents of the transaction collection ($createdAt: day and time).
TransferIn ==
    [id |-> "x1", name |-> "Transfer from Ann", amount |-> 40, createdAt |-> <<3, 0>>,
     channel |-> "online", category |-> "Transfer", senderBankId |-> 2, receiverBankId |-> 1]
TransferOut ==
    [id |-> "x2", name |-> "Transfer to Bob", amount |-> 25, createdAt |-> <<2, 5>>,
     channel |-> "online", category |-> "Transfer", senderBankId |-> 1, receiverBankId |-> 2]
TransferLate ==
    [id |-> "x3", name |-> "Transfer to Cy", amount |-> 7, createdAt |-> <<3, 0>>,
     channel |-> "online", category |-> "Transfer", senderBankId |-> 1, receiverBankId |-> 2]

RECURSIVE SeqsUpTo(_, _)
SeqsUpTo(S, n) ==
    IF n = 0 THEN {<<>>}
    ELSE LET shorter == SeqsUpTo(S, n - 1)
         IN  shorter \cup {Append(l, x) : l \in {y \in shorter : Len(y) = n - 1}, x \in S}

\* What getTransactions can return, and what getTransactionsByBankId can find.
ProviderFeeds ==
    SeqsUpTo({NormalizeTransaction(t) : t \in {TxnCoffee, TxnTransfer, TxnLunch}}, MaxProvider)
TransferLists == SeqsUpTo({TransferIn, TransferOut, TransferLate}, MaxTransfers)

\* The bank document of a completed link (the state exchangePublicToken leaves).
LinkedBank ==
    BankDocument([LinkIdle EXCEPT !.itemId = <<"item", "public-1">>,
                                  !.accessToken = <<"access", "public-1">>,
                                  !.accounts = <<"acc-1">>,
                                  !.fundingSourceUrl = <<"funding", "acc-1">>])

\* transferTransactionsData.documents.map callback
TransferEntry(doc, bankId) ==
    [id |-> doc.id, name |-> doc.name, amount |-> doc.amount, date |-> doc.createdAt,
     paymentChannel |-> doc.channel, category |-> doc.category,
     type |-> IF doc.senderBankId = bankId THEN "debit" ELSE "credit"]

MapTransfers(docs, bankId) == [i \in DOMAIN docs |-> TransferEntry(docs[i], bankId)]

\* A comparator that puts the oldest entry first.
CompareOldestFirst(a, b) == GetTime(a.date) - GetTime(b.date)

\* (a, b) => new Date(b.date).getTime() - new Date(a.date).getTime()
CompareByDate(a, b) == GetTime(b.date) - GetTime(a.date)

\* An insertion that leaves out an entry whose date the list already has.
InsertUnlessTied(sorted, x) ==
    IF \E i \in DOMAIN sorted : CompareOldestFirst(sorted[i], x) = 0 THEN sorted
    ELSE LET newer == {i \in DOMAIN sorted : CompareOldestFirst(sorted[i], x) > 0}
         IN  SubSeq(sorted, 1, Cardinality(newer)) \o <<x>>
               \o SubSeq(sorted, Cardinality(newer) + 1, Len(sorted))

\* Array.prototype.sort with CompareByDate: a stable sort.  Insert puts x after
\* every entry of the sorted list that does not have to follow it.
InsertSorted(sorted, x) ==
    LET after == {i \in DOMAIN sorted : CompareByDate(sorted[i], x) > 0}
        k == IF after = {} THEN Len(sorted) + 1
             ELSE CHOOSE i \in after : \A j \in after : i <= j
    IN  SubSeq(sorted, 1, k - 1) \o <<x>> \o SubSeq(sorted, k, Len(sorted))

\* A feed left in the order of its input.
KeepInputOrder(list) == list

RECURSIVE SortByDate(_)
SortByDate(list) ==
    IF list = <<>> THEN <<>>
    ELSE InsertSorted(SortByDate(SubSeq(list, 1, Len(list) - 1)), list[Len(list)])

\* A merge that lists the transfer records first.
MergeTransfersFirst(transactions, transferTransactions) ==
    transferTransactions \o transactions

\* [...transactions, ...transferTransactions] (both are arrays)
MergeLists(transactions, transferTransactions) == transactions \o transferTransactions

AcctIdle ==
    [pc |-> "idle", appwriteItemId |-> 0, bank |-> 0, accountData |-> FALSE,
     transferDocs |-> <<>>, transferTransactions |-> <<>>, institution |-> FALSE,
     transactions |-> <<>>, allTransactions |-> <<>>, failedStep |-> "",
     result |-> "none"]

AcctRest == acct = AcctIdle

\* catch block of getAccount: logs; the function returns undefined.
AcctCatch(a, step) == [a EXCEPT !.pc = "done", !.failedStep = step, !.result = "undefined"]

\* getAccount entry: getBank({documentId}) and the tests of its result
\* (getBank yields null for an unknown id and for a failed lookup).
GA_GetBank ==
    /\ acct.pc = "idle"
    /\ \E id \in 1..(Len(banks) + 1), lookupFails \in BOOLEAN :
          LET a == [AcctIdle EXCEPT !.appwriteItemId = id]
          IN  acct' = IF lookupFails \/ id \notin DOMAIN banks \/ banks[id].accessToken = Absent
                      THEN [a EXCEPT !.pc = "done", !.failedStep = "bank", !.result = "null"]
                      ELSE [a EXCEPT !.pc = "ga_accounts", !.bank = id]
    /\ UNCHANGED <<authVars, form, dw, link, banks, sync, agg, hist>>

\* plaidClient.accountsGet
GA_AccountsGet ==
    /\ acct.pc = "ga_accounts"
    /\ \/ acct' = [acct EXCEPT !.pc = "ga_transfers", !.accountData = TRUE]
       \/ acct' = AcctCatch(acct, "accounts")
    /\ UNCHANGED <<authVars, form, dw, link, banks, sync, agg, hist>>

\* getTransactionsByBankId({bankId: bank.$id}) and the map of its documents
GA_GetTransfers ==
    /\ acct.pc = "ga_transfers"
    /\ \/ \E docs \in TransferLists :
             acct' = [acct EXCEPT !.pc = "ga_institution", !.transferDocs = docs,
                                  !.transferTransactions = MapTransfers(docs, acct.bank)]
       \/ acct' = AcctCatch(acct, "transfers")
    /\ UNCHANGED <<authVars, form, dw, link, banks, sync, agg, hist>>

\* getInstitution: the institution, or undefined when its lookup failed
GA_GetInstitution ==
    /\ acct.pc = "ga_institution"
    /\ \E found \in BOOLEAN :
          acct' = [acct EXCEPT !.pc = "ga_transactions", !.institution = found]
    /\ UNCHANGED <<authVars, form, dw, link, banks, sync, agg, hist>>

\* getTransactions({accessToken}), then the account object (reading
\* institution.institution_id of undefined throws), the merged and sorted
\* feed, and the return.
GA_GetTransactions ==
    /\ acct.pc = "ga_transactions"
    /\ \E txns \in ProviderFeeds :
          LET a == [acct EXCEPT !.transactions = txns]
          IN  acct' = IF ~acct.institution THEN AcctCatch(a, "institution")
                      ELSE [a EXCEPT !.pc = "done", !.result = "account",
                                     !.allTransactions =
                                        SortByDate(MergeLists(txns, acct.transferTransactions))]
    /\ UNCHANGED <<authVars, form, dw, link, banks, sync, agg, hist>>

\* -------------------------------------------------------------- getAccounts
\* Number of the user's bank documents.
MaxBanks == 3

\* balances.current as the provider reports it.
Balances == {50, 120}

\* The bank document of a second completed link.
LinkedBankTwo ==
    BankDocument([LinkIdle EXCEPT !.itemId = <<"item", "public-2">>,
                                  !.accessToken = <<"access", "public-2">>,
                                  !.accounts = <<"acc-2", "acc-1">>,
                                  !.fundingSourceUrl = <<"funding", "acc-2">>])

\* The bank collection of the user: what the links made so far have left.
BankCollections == SeqsUpTo({LinkedBank, LinkedBankTwo}, MaxBanks)

NoAccount ==
    [id |-> "", currentBalance |-> 0, appwriteItemId |-> 0, shareableId |-> Absent]

AggIdle ==
    [pc |-> "idle", banks |-> <<>>, task |-> <<>>, accounts |-> <<>>,
     order |-> <<>>, failedBank |-> 0, returned |-> "none",
     data |-> <<>>, totalBanks |-> 0, totalCurrentBalance |-> 0]

AggRest == agg = AggIdle

\* catch block of getAccounts: logs; the function returns undefined.
AggCatch(a, i) == [a EXCEPT !.pc = "done", !.failedBank = i, !.returned = "undefined"]

\* A total that counts the last account only.
TotalOfLastAccount(accounts) ==
    IF accounts = <<>> THEN 0 ELSE accounts[Len(accounts)].currentBalance

\* accounts.reduce((total, account) => total + account.currentBalance, 0)
RECURSIVE TotalCurrentBalance(_)
TotalCurrentBalance(accounts) ==
    IF accounts = <<>> THEN 0
    ELSE TotalCurrentBalance(SubSeq(accounts, 1, Len(accounts) - 1))
           + accounts[Len(accounts)].currentBalance

\* A collection that lists the accounts in the order their fetches ended.
CollectByCompletion(a) == [k \in DOMAIN a.order |-> a.accounts[a.order[k]]]

\* Promise.all: the value of the i-th promise is the i-th element.
CollectPositional(a) == [i \in DOMAIN a.banks |-> a.accounts[i]]

\* Promise.all resolved: totals and return.
AggReturn(a) ==
    LET accounts == CollectPositional(a)
    IN  [a EXCEPT !.pc = "done", !.returned = "value", !.data = accounts,
                  !.totalBanks = Len(accounts),
                  !.totalCurrentBalance = TotalCurrentBalance(accounts)]

\* getAccounts entry: getBanks({userId}) (a failed listing yields undefined,
\* and Promise.all(undefined) throws), then banks.map starts one fetch per
\* bank, each running up to its accountsGet call.
GAS_GetBanks ==
    /\ agg.pc = "idle"
    /\ \/ agg' = AggCatch(AggIdle, 0)
       \/ LET found == SelectSeq(banks, LAMBDA b : b.userId = LinkUser.id)
              a == [AggIdle EXCEPT !.pc = "fetching", !.banks = found,
                                   !.task = [i \in DOMAIN found |-> "accounts"],
                                   !.accounts = [i \in DOMAIN found |-> NoAccount]]
          IN  agg' = IF found = <<>> THEN AggReturn(a) ELSE a
    /\ UNCHANGED <<authVars, form, dw, link, banks, sync, acct, hist>>

\* plaidClient.accountsGet of the fetch of bank i; a rejection rejects
\* Promise.all.
GAS_AccountsGet(i) ==
    /\ agg.pc = "fetching"
    /\ i \in DOMAIN agg.task
    /\ agg.task[i] = "accounts"
    /\ \/ \E b \in Balances :
             agg' = [agg EXCEPT !.task[i] = "institution",
                                !.accounts[i].id = agg.banks[i].accountId,
                                !.accounts[i].currentBalance = b]
       \/ agg' = AggCatch([agg EXCEPT !.task[i] = "failed"], i)
    /\ UNCHANGED <<authVars, form, dw, link, banks, sync, acct, hist>>

\* getInstitution of the fetch of bank i, then the account object (reading
\* institution.institution_id of undefined throws); the last fetch to end
\* resolves Promise.all.
GAS_GetInstitution(i) ==
    /\ agg.pc = "fetching"
    /\ i \in DOMAIN agg.task
    /\ agg.task[i] = "institution"
    /\ \/ LET a == [agg EXCEPT !.task[i] = "done",
                                !.accounts[i].appwriteItemId = i,
                                !.accounts[i].shareableId = agg.banks[i].shareableId,
                                !.order = Append(@, i)]
          IN  agg' = IF \A j \in DOMAIN a.task : a.task[j] = "done"
                     THEN AggReturn(a) ELSE a
       \/ agg' = AggCatch([agg EXCEPT !.task[i] = "failed"], i)
    /\ UNCHANGED <<authVars, form, dw, link, banks, sync, acct, hist>>

\* ------------------------------------------------ transaction-history page
\* Length of the feed getAccount returns to the page.
MaxRows == 25

rowsPerPage == 10

\* The page parameter of the URL: absent, a text that is no number, or the
\* decimal text of an integer.
ParamAbsent == [kind |-> "absent", value |-> 0]
ParamText == [kind |-> "text", value |-> 0]
ParamNumber(v) == [kind |-> "number", value |-> v]
PageParams == {ParamAbsent, ParamText} \cup {ParamNumber(v) : v \in -3..4}

\* Number(page as string): NaN for undefined and for a text that is no number.
ToNumber(param) ==
    IF param.kind = "number" THEN [nan |-> FALSE, value |-> param.value]
    ELSE [nan |-> TRUE, value |-> 0]

\* Number(page as string) || 1: NaN and 0 are falsy.
CurrentPage(param) ==
    LET x == ToNumber(param) IN IF x.nan \/ x.value = 0 THEN 1 ELSE x.value

\* Math.ceil(transactions.length / rowsPerPage)
TotalPages(n) == (n + rowsPerPage - 1) \div rowsPerPage

\* Array.prototype.slice(start, end): a negative index counts from the end.
Slice(list, start, end) ==
    LET len == Len(list)
        from == IF start < 0 THEN (IF len + start < 0 THEN 0 ELSE len + start)
                ELSE (IF start > len THEN len ELSE start)
        to == IF end < 0 THEN (IF len + end < 0 THEN 0 ELSE len + end)
              ELSE (IF end > len THEN len ELSE end)
    IN  IF from < to THEN SubSeq(list, from + 1, to) ELSE <<>>

\* The feed of n entries, each named by its position (from 0).
Feed(n) == [i \in 1..n |-> i - 1]

HistIdle ==
    [pc |-> "idle", param |-> ParamAbsent, transactions |-> <<>>, view |-> "none",
     currentPage |-> 0, totalPages |-> 0, currentTransactions |-> <<>>]

HistRest == hist = HistIdle

\* TransactionHistory entry: searchParams, getLoggedInUser, getAccounts; no
\* accounts: nothing is rendered; no id and no first account: the
\* no-account-selected view.
TH_GetAccounts ==
    /\ hist.pc = "idle"
    /\ \E param \in PageParams :
          LET h == [HistIdle EXCEPT !.param = param, !.currentPage = CurrentPage(param)]
          IN  \/ hist' = [h EXCEPT !.pc = "done", !.view = "nothing"]
              \/ hist' = [h EXCEPT !.pc = "done", !.view = "noAccountSelected"]
              \/ hist' = [h EXCEPT !.pc = "th_account"]
    /\ UNCHANGED <<authVars, form, dw, link, banks, sync, acct, agg>>

\* getAccount({appwriteItemId}); no account: the no-account-found view; else
\* totalPages, the slice of the feed and the table.
TH_GetAccount ==
    /\ hist.pc = "th_account"
    /\ \/ hist' = [hist EXCEPT !.pc = "done", !.view = "noAccountFound"]
       \/ \E n \in 0..MaxRows :
             LET transactions == Feed(n)
                 indexOfLastTransaction == hist.currentPage * rowsPerPage
                 indexOfFirstTransaction == indexOfLastTransaction - rowsPerPage
             IN  hist' = [hist EXCEPT !.pc = "done", !.view = "table",
                                      !.transactions = transactions,
                                      !.totalPages = TotalPages(Len(transactions)),
                                      !.currentTransactions =
                                          Slice(transactions, indexOfFirstTransaction,
                                                indexOfLastTransaction)]
    /\ UNCHANGED <<authVars, form, dw, link, banks, sync, acct, agg>>

\* --------------- getTransactions, provider answering has_more as it likes
\* Transactions the provider holds for the item; its further pages are empty.
MaxFeed == 3

\* The answers open to the provider when the call has gathered s.transactions:
\* any page of entries it still holds, any next_cursor, any has_more.
FreeData(s) ==
    {[added |-> a, addedIsArray |-> TRUE, next_cursor |-> c, has_more |-> h] :
        a \in {x \in AddedLists : Len(s.transactions) + Len(x) <= MaxFeed},
        c \in Cursors, h \in BOOLEAN}

\* The list of the requests sent is not kept here (the loop may send any
\* number of them).
Unrecorded(s) == [s EXCEPT !.sent = <<>>]

AfterFreeCall(s) ==
    {Unrecorded(LoopIteration(s, data)) : data \in FreeData(s)}
    \cup {Unrecorded(SyncCatch(s, e)) : e \in SyncErrors}

\* getTransactions entry and first transactionsSync call
GT_FreeEntry ==
    /\ sync.pc \in {"idle", "done"}
    /\ sync.n < MaxSyncs
    /\ \E tok \in {"access-1", ""} :
          LET s == [SyncIdle(<<>>) EXCEPT !.n = sync.n + 1, !.accessToken = tok]
          IN  IF tok = ""
              THEN sync' = [s EXCEPT !.pc = "done", !.result = ParseStringify(<<>>)]
              ELSE sync' \in AfterFreeCall(s)
    /\ UNCHANGED <<authVars, form, dw, link, banks, acct, agg, hist>>

\* A later iteration of the loop; the provider call returns, with an answer
\* or with an error.
GT_FreeSync ==
    /\ sync.pc = "loop"
    /\ sync' \in AfterFreeCall(sync)
    /\ UNCHANGED <<authVars, form, dw, link, banks, acct, agg, hist>>

\* ---------------------------------------------------------- specification
Init == AuthRest /\ FormRest /\ DwRest /\ LinkRest /\ SyncRest /\ AcctRest /\ AggRest /\ HistRest

Next ==
    \E p \in Procs :
        \/ SU_AccountCreate(p)
        \/ SU_CreateDwollaCustomer(p)
        \/ SU_CreateDocument(p)
        \/ SU_Cleanup(p)
        \/ SU_CreateSession(p)
        \/ RC_ProbeSession(p)
        \/ RC_DeleteSession(p)
        \/ RC_GetUserInfo(p)
        \/ RC_CreateDwollaCustomer(p)
        \/ RC_CreateDocument(p)
        \/ RC_CreateSession(p)
        \/ SI_CreateSession(p)
        \/ SI_GetUserInfo(p)

\* Two clients whose requests interleave at every await.
Spec == Init /\ [][Next]_vars

\* One client issuing its requests one after another.
Seq_SignUp(p) == SignUpEntry(p, MaxSeqCalls)
Seq_SignIn(p) == SignInEntry(p, MaxSeqCalls)
Seq_Logout(p) == LogoutEntry(p, MaxSeqCalls)

NextSeq ==
    \E p \in {1} :
        \/ Seq_SignUp(p)
        \/ SU_CreateDwollaCustomer(p)
        \/ SU_CreateDocument(p)
        \/ SU_Cleanup(p)
        \/ SU_CreateSession(p)
        \/ RC_ProbeSession(p)
        \/ RC_DeleteSession(p)
        \/ RC_GetUserInfo(p)
        \/ RC_CreateDwollaCustomer(p)
        \/ RC_CreateDocument(p)
        \/ RC_CreateSession(p)
        \/ Seq_SignIn(p)
        \/ SI_GetUserInfo(p)
        \/ Seq_Logout(p)
        \/ LO_DeleteCookie(p)
        \/ LO_DeleteSession(p)

SpecSeq == Init /\ [][NextSeq]_vars

\* The form's catch block over the raw errors a submit can meet.
InitForm ==
    /\ AuthRest /\ DwRest /\ LinkRest /\ SyncRest /\ AcctRest /\ AggRest /\ HistRest
    /\ form \in {Submitted(type, e) : type \in {"sign-in", "sign-up"}, e \in RawErrors}

NextForm == Form_SignIn \/ Form_SignUp \/ Form_Catch

SpecForm == InitForm /\ [][NextForm]_vars

\* The form submitted again and again; every awaited server action settles.
NextFormLive ==
    \/ Form_Submit
    \/ Form_Returns
    \/ Form_SignIn
    \/ Form_SignUp
    \/ Form_Catch

SpecFormLive ==
    /\ Init
    /\ [][NextFormLive]_vars
    /\ WF_vars(Form_Returns) /\ WF_vars(Form_SignIn)
    /\ WF_vars(Form_SignUp) /\ WF_vars(Form_Catch)

\* createDwollaCustomer over the answers of the payment rail.
InitDwolla ==
    /\ AuthRest /\ FormRest /\ LinkRest /\ SyncRest /\ AcctRest /\ AggRest /\ HistRest
    /\ dw \in {[DwIdle EXCEPT !.pc = "call", !.resp = resp] :
                   resp \in AllDwollaResponses \cup FieldRejections}

NextDwolla == DW_CreateDwollaCustomer

SpecDwolla == InitDwolla /\ [][NextDwolla]_vars

\* exchangePublicToken requests of one user, one after another.
NextLink ==
    \/ EP_ItemPublicTokenExchange
    \/ EP_AccountsGet
    \/ EP_ProcessorTokenCreate
    \/ EP_CreateOnDemandAuthorization
    \/ EP_CreateFundingSource
    \/ EP_CreateBankAccount

SpecLink == Init /\ [][NextLink]_vars

\* getTransactions calls, one after another, against a provider of N + 1 pages.
InitSync ==
    /\ AuthRest /\ FormRest /\ DwRest /\ LinkRest /\ AcctRest /\ AggRest /\ HistRest
    /\ sync \in {SyncIdle(pages) : pages \in Providers}

NextSync == GT_Entry \/ GT_TransactionsSync

SpecSync == InitSync /\ [][NextSync]_vars

\* getTransactions against a provider that answers has_more as it likes;
\* every provider call returns (weak fairness of the loop's request).
NextSyncLive == GT_FreeEntry \/ GT_FreeSync

SpecSyncLive == Init /\ [][NextSyncLive]_vars /\ WF_vars(GT_FreeSync)

\* getAccount for a user with one linked bank.
InitAccount ==
    /\ AuthRest /\ FormRest /\ DwRest /\ SyncRest /\ AcctRest /\ AggRest /\ HistRest
    /\ link = LinkIdle
    /\ banks = <<LinkedBank>>

NextAccount ==
    \/ GA_GetBank
    \/ GA_AccountsGet
    \/ GA_GetTransfers
    \/ GA_GetInstitution
    \/ GA_GetTransactions

SpecAccount == InitAccount /\ [][NextAccount]_vars

\* getAccounts for a user with any number of linked banks.
InitAccounts ==
    /\ AuthRest /\ FormRest /\ DwRest /\ SyncRest /\ AcctRest /\ AggRest /\ HistRest
    /\ link = LinkIdle
    /\ banks \in BankCollections

NextAccounts ==
    \/ GAS_GetBanks
    \/ \E i \in 1..MaxBanks : GAS_AccountsGet(i)
    \/ \E i \in 1..MaxBanks : GAS_GetInstitution(i)

SpecAccounts == InitAccounts /\ [][NextAccounts]_vars

\* One rendering of the transaction-history page.
NextHistory == TH_GetAccounts \/ TH_GetAccount

SpecHistory == Init /\ [][NextHistory]_vars

\* ------------------------------------------------------------------ claims
Finished(p, op) == proc[p].pc = "done" /\ proc[p].op = op
Exists(uid) == \E u \in principals : u.id = uid
SessionIds == {s.id : s \in sessions}
CustomersOf(uid) == {i \in DOMAIN customers : customers[i].forUser = uid}
Uids == 1..(nextUid - 1)

\* C1: when signUp created a principal and the payment-customer creation that
\* followed failed, the principal created by that attempt no longer exists once
\* signUp has returned its error.
C1_NoOrphanAfterCustomerFailure ==
    \A p \in Procs :
        (/\ Finished(p, "signUp")
         /\ proc[p].newUserAccount # None
         /\ proc[p].failedStep = "dwolla"
         /\ proc[p].result.kind = "error")
        => ~Exists(proc[p].newUserAccount)

\* C2: when signUp created the principal and the payment customer and the
\* creation of the profile document then failed, the principal created by that
\* attempt is deleted before signUp returns its error.
C2_RollbackAfterProfileFailure ==
    \A p \in Procs :
        (/\ Finished(p, "signUp")
         /\ proc[p].newUserAccount # None
         /\ proc[p].failedStep = "document"
         /\ proc[p].result.kind = "error")
        => ~Exists(proc[p].newUserAccount)

\* C3: starting with a principal that has no profile document, two signUp calls
\* in sequence with the same credentials (the first one recovering the profile)
\* leave exactly one principal and exactly one profile document for the email.
C3_SignUpTwiceIdempotent ==
    \A p \in Procs :
        (Finished(p, "signUp") /\ proc[p].afterHeal)
        => /\ Cardinality(PrincipalsOf(proc[p].email)) = 1
           /\ \A u \in PrincipalsOf(proc[p].email) : Cardinality(DocsOf(u.id)) = 1

\* C4: in every reachable state no authentication principal has more than one
\* profile document.
C4_AtMostOneProfilePerPrincipal ==
    \A uid \in Uids : Cardinality(DocsOf(uid)) <= 1

\* C5: over any sequence of signUp attempts at most one payment customer is
\* created per identity.
C5_AtMostOneCustomerPerIdentity ==
    \A uid \in Uids : Cardinality(CustomersOf(uid)) <= 1

\* C6: when account creation failed with already-exists, the probe session
\* opened and no profile document exists for the principal, signUp creates a
\* payment customer, then a profile document whose userId is the existing
\* principal's id, then sets the session cookie and returns that document;
\* it ends otherwise only when one of these later steps failed.
C6_RecoveryHealsMissingProfile ==
    \A p \in Procs :
        LET r == proc[p] IN
        /\ (r.op = "signUp" /\ r.recovering /\ r.docsMade > 0)
              => /\ r.customersMade > 0
                 /\ r.recoveredUser \in DOMAIN documents
                 /\ documents[r.recoveredUser].userId = r.existingUserId
                 /\ documents[r.recoveredUser].dwollaCustomerUrl \in
                        CustomersOf(r.existingUserId)
        /\ (r.op = "signUp" /\ r.recovering /\ r.cookieSet)
              => r.docsMade > 0 /\ r.pc = "done"
        /\ (/\ Finished(p, "signUp") /\ r.recovering
            /\ r.probe = "opened" /\ r.looked /\ ~r.docExisted)
              => \/ /\ r.outcome = "healed"
                    /\ r.customersMade = 1 /\ r.docsMade = 1
                    /\ r.cookieSet /\ cookie[p] \in SessionIds
                    /\ r.result = Returned(r.recoveredUser)
                 \/ /\ r.rcFailed \in {"dwolla", "document", "session"}
                    /\ r.result.kind = "error"
                    /\ ~r.cookieSet

C6_Witness ==
    \E p \in Procs :
        /\ Finished(p, "signUp") /\ proc[p].recovering /\ proc[p].failedStep = "create"
        /\ proc[p].probe = "opened" /\ proc[p].looked /\ ~proc[p].docExisted
        /\ proc[p].outcome = "healed"

\* C7: when account creation failed with already-exists and either the
\* credentials failed to open a session or a profile document already exists
\* for the principal, signUp fails with the already-exists error and creates no
\* payment customer, no profile document and sets no session cookie.
C7_NoRecoveryWithoutNeed ==
    \A p \in Procs :
        LET r == proc[p] IN
        (/\ r.op = "signUp" /\ r.recovering /\ r.failedStep = "create"
         /\ (r.probe = "failed" \/ (r.looked /\ r.docExisted)))
        => /\ r.customersMade = 0
           /\ r.docsMade = 0
           /\ ~r.cookieSet
           /\ (r.pc = "done" => r.result = Threw(Err(MsgAlreadyExists, None)))

\* C8: the recovery path of signUp is entered only when the account-creation
\* step itself failed; a failure of a later step never enters it.
C8_RecoveryOnlyAfterAccountCreation ==
    \A p \in Procs :
        (proc[p].op = "signUp" /\ proc[p].recovering) => proc[p].failedStep = "create"

\* C9: whenever payment-customer creation was rejected with field validation
\* errors during signUp, the error signUp raises is that ValidationError.
C9_ValidationErrorPropagates ==
    \A p \in Procs :
        (Finished(p, "signUp") /\ proc[p].fieldError # NoError)
        => proc[p].result = Threw(proc[p].fieldError)

\* C10: when signIn authenticated the credentials and no profile document
\* exists for the principal, signIn fails with the profile-data-missing error
\* and not with the invalid-credentials error.
C10_ProfileMissingNotInvalidCredentials ==
    \A p \in Procs :
        LET r == proc[p] IN
        (/\ Finished(p, "signIn") /\ r.sessionUser # None
         /\ r.looked /\ ~r.docExisted)
        => /\ r.result.kind = "error"
           /\ Includes(r.result.error.message, <<"PROFILE", "_DATA_MISSING">>)
           /\ r.result.error.message # MsgInvalidCredentials

C10_Witness ==
    \E p \in Procs :
        /\ Finished(p, "signIn") /\ proc[p].sessionUser # None
        /\ proc[p].looked /\ ~proc[p].docExisted
        /\ proc[p].result.kind = "error"

\* C11: when signIn fails with the profile-data-missing error, the session it
\* opened to authenticate is no longer open and the session cookie is not set.
C11_NoSessionAfterProfileMissing ==
    \A p \in Procs :
        LET r == proc[p] IN
        (/\ Finished(p, "signIn") /\ r.result.kind = "error"
         /\ Includes(r.result.error.message, <<"PROFILE", "_DATA_MISSING">>))
        => /\ r.session \notin SessionIds
           /\ ~r.cookieSet
           /\ cookie[p] # r.session
\* Markers of the error kinds, looked for in the lower-cased message.
Lower(e) == ToLowerCase(e.message)
HasProfileMarker(e) == Includes(Lower(e), <<"profile">>)
HasProfileMissingMarker(e) ==
    \/ Includes(Lower(e), <<"profile", "_data_missing">>)
    \/ Includes(Lower(e), <<"profile", " data">>)
HasAlreadyExistsMarker(e) ==
    Includes(Lower(e), <<"already exists">>) \/ Includes(Lower(e), <<"already registered">>)
HasUserNotFoundMarker(e) ==
    Includes(Lower(e), <<"user not found">>) \/ Includes(Lower(e), <<"no account found">>)
HasCredentialsMarker(e) ==
    \/ Includes(Lower(e), <<"invalid credentials">>)
    \/ Includes(Lower(e), <<"invalid password">>)
    \/ Includes(Lower(e), <<"wrong password">>)
    \/ (e.code = 401 /\ Includes(Lower(e), <<"unauthorized">>))
HasValidationMarker(e) ==
    Includes(Lower(e), <<"validation error">>) \/ Includes(Lower(e), <<"dwolla">>)

\* C12: a sign-in whose upstream error carries a user-not-found marker, and
\* neither a profile marker nor an already-exists marker, shows the user the
\* no-account-found message and not the invalid-credentials message.
C12_UserNotFoundReported ==
    (/\ form.pc = "shown" /\ form.type = "sign-in"
     /\ HasUserNotFoundMarker(form.raw)
     /\ ~HasProfileMarker(form.raw) /\ ~HasAlreadyExistsMarker(form.raw))
    => /\ form.errorMessage = MsgFormNotFound
       /\ form.errorMessage # MsgInvalidCredentials

\* C13: for a raw error whose message contains "profile" in any letter case,
\* signIn does not throw the invalid-credentials error and the form does not
\* take the invalid-credentials branch, neither for the raw error nor for the
\* error the server action threw.
C13_ProfileSuppressesInvalidCredentials ==
    HasProfileMarker(form.raw)
    => /\ FormBranch(form.raw) # "InvalidCredentials"
       /\ (form.pc \in {"caught", "shown"} /\ form.type = "sign-in")
             => form.thrown = form.raw
       /\ form.pc = "shown"
             => /\ form.branch # "InvalidCredentials"
                /\ form.errorMessage # MsgInvalidCredentials

C13_Witness ==
    /\ form.pc = "shown" /\ form.type = "sign-in"
    /\ HasProfileMarker(form.raw) /\ HasCredentialsMarker(form.raw)
    /\ ~HasProfileMissingMarker(form.raw)

\* The kinds in the order of the chain, and the test each kind stands for (the
\* credentials markers count only without a "profile" mention).
KindOrder ==
    <<"ProfileDataMissing", "AccountAlreadyExists", "UserNotFound",
      "InvalidCredentials", "Validation", "Default">>
MatchesKind(k, e) ==
    CASE k = "ProfileDataMissing" -> HasProfileMissingMarker(e)
      [] k = "AccountAlreadyExists" -> HasAlreadyExistsMarker(e)
      [] k = "UserNotFound" -> HasUserNotFoundMarker(e)
      [] k = "InvalidCredentials" -> HasCredentialsMarker(e) /\ ~HasProfileMarker(e)
      [] k = "Validation" -> HasValidationMarker(e)
      [] OTHER -> TRUE
KindText(k) ==
    CASE k = "ProfileDataMissing" -> MsgFormProfile
      [] k = "AccountAlreadyExists" -> MsgAlreadyExists
      [] k = "UserNotFound" -> MsgFormNotFound
      [] OTHER -> MsgInvalidCredentials

\* C14: the form classifies the error it caught as the first kind, in the
\* order profile-data-missing, already-exists, user-not-found,
\* invalid-credentials, validation / provider marker, default, whose markers
\* the message matches, and shows that kind's text.
C14_FirstMatchWins ==
    (form.pc = "shown" /\ form.thrown.message # <<>>)
    => \E i \in DOMAIN KindOrder :
          /\ form.branch = KindOrder[i]
          /\ MatchesKind(KindOrder[i], form.thrown)
          /\ \A j \in 1..(i - 1) : ~MatchesKind(KindOrder[j], form.thrown)
          /\ i <= 4 => form.errorMessage = KindText(KindOrder[i])

C14_Witness ==
    /\ form.pc = "shown"
    /\ HasAlreadyExistsMarker(form.thrown) /\ HasUserNotFoundMarker(form.thrown)
    /\ form.branch = "AccountAlreadyExists"
\* "field: message" of one embedded error: the path without its leading slash.
ExpectedPair(e) == Tail(e.path) \o <<": ">> \o e.message
RECURSIVE ExpectedJoin(_, _)
ExpectedJoin(errors, n) ==
    IF n = 0 THEN <<>>
    ELSE IF n = 1 THEN ExpectedPair(errors[1])
    ELSE ExpectedJoin(errors, n - 1) \o <<", ">> \o ExpectedPair(errors[n])
LeadingSlash(errors) ==
    \A i \in DOMAIN errors : errors[i].path # <<>> /\ Head(errors[i].path) = "/"

\* C15: when the provider rejects customer creation with a body embedding a
\* list of field errors (each with a path that starts with a slash),
\* createDwollaCustomer throws the validation error whose text is the
\* "field: message" pairs of the list, in the list's order, joined by ", ",
\* each field being the path without its leading slash.
C15_ValidationErrorText ==
    (dw.pc = "done" /\ IsFieldRejection(dw.resp) /\ LeadingSlash(dw.resp.errors))
    => /\ dw.threw
       /\ dw.error.message =
              ValidationPrefix \o ExpectedJoin(dw.resp.errors, Len(dw.resp.errors))
       /\ dw.resp.errors = <<FieldState>>
             => dw.error.message =
                  <<"Validation error", ": ", "state", ": ", "must be a US ", "state">>

C15_Witness ==
    /\ dw.pc = "done" /\ dw.threw
    /\ dw.resp.errors = <<FieldState, FieldAddress, FieldEmail>>
\* C16: on the normal path of signUp the payment customer is created only
\* after the principal, the profile document only after the customer (and it
\* names both), the session cookie is set only after the document, and signUp
\* returns the profile only with all four done, the cookie holding an open
\* session.
C16_NormalPathOrder ==
    \A p \in Procs :
        LET r == proc[p] IN
        (r.op = "signUp" /\ r.failedStep = "")
        => /\ r.pc \in {"su_dwolla", "su_document", "su_cleanup", "su_session", "done"}
           /\ r.newUserAccount # None
           /\ r.pc = "su_dwolla" => r.customersMade = 0 /\ r.docsMade = 0 /\ ~r.cookieSet
           /\ r.pc \in {"su_document", "su_cleanup"}
                 => /\ r.customersMade = 1 /\ r.docsMade = 0 /\ ~r.cookieSet
                    /\ r.dwollaCustomerUrl \in CustomersOf(r.newUserAccount)
           /\ r.pc = "su_session"
                 => /\ r.customersMade = 1 /\ r.docsMade = 1 /\ ~r.cookieSet
                    /\ r.newUser \in DocsOf(r.newUserAccount)
                    /\ documents[r.newUser].dwollaCustomerUrl = r.dwollaCustomerUrl
           /\ r.pc = "done"
                 => /\ r.outcome = "created"
                    /\ r.customersMade = 1 /\ r.docsMade = 1
                    /\ r.dwollaCustomerUrl \in CustomersOf(r.newUserAccount)
                    /\ r.newUser \in DocsOf(r.newUserAccount)
                    /\ documents[r.newUser].dwollaCustomerUrl = r.dwollaCustomerUrl
                    /\ r.cookieSet /\ cookie[p] \in SessionIds
                    /\ r.result = Returned(r.newUser)

C16_Witness ==
    \E p \in Procs :
        /\ Finished(p, "signUp") /\ proc[p].failedStep = ""
        /\ proc[p].outcome = "created" /\ proc[p].result.kind = "value"
\* C17: logoutAccount returns normally whatever fails: obtaining the session
\* client, deleting the cookie or revoking the session.
C17_LogoutNeverThrows ==
    \A p \in Procs :
        Finished(p, "logout") => proc[p].result.kind = "value"

C17_Witness ==
    \E p \in Procs :
        /\ Finished(p, "logout") /\ proc[p].failedStep = "deleteSession"
        /\ cookie[p] = None /\ proc[p].session \in SessionIds
\* C18: when the public-token exchange, the account fetch, the processor-token
\* creation or the funding-source creation of an exchangePublicToken request
\* fails, the request stops there and stores no bank document.
C18_NoBankLinkAfterFailedStep ==
    link.failedStep \in {"exchange", "accounts", "processor", "funding"}
    => /\ link.pc = "done"
       /\ link.docsMade = 0
       /\ Len(banks) = link.banksBefore
       /\ link.result = "undefined"

C18_Witness ==
    /\ link.pc = "done" /\ link.failedStep = "funding"
    /\ link.processorToken # Absent /\ link.banksBefore = 1 /\ Len(banks) = 1
\* The entries a page contributes, field by field.
ExpectedEntry(t) ==
    [id |-> t.transaction_id, name |-> t.name, paymentChannel |-> t.payment_channel,
     type |-> t.payment_channel, accountId |-> t.account_id, amount |-> t.amount,
     pending |-> t.pending,
     category |-> IF t.category = <<>> THEN "" ELSE Head(t.category),
     date |-> t.date, image |-> t.logo_url]
ExpectedOfPage(page) ==
    IF page.addedIsArray THEN [i \in DOMAIN page.added |-> ExpectedEntry(page.added[i])]
    ELSE <<>>
RECURSIVE ExpectedFeed(_, _)
ExpectedFeed(pages, n) ==
    IF n = 0 THEN <<>> ELSE ExpectedFeed(pages, n - 1) \o ExpectedOfPage(pages[n])

\* C19: against a provider that answers has_more = true for N pages and then
\* has_more = false, a getTransactions call in which no provider call fails
\* issues exactly N + 1 sync calls and returns the normalized "added" entries
\* of all pages, concatenated in page order.
C19_SyncIssuesAllPages ==
    (sync.pc = "done" /\ sync.accessToken # "" /\ ~sync.failed)
    => /\ Len(sync.sent) = Len(sync.pages)
       /\ sync.result = ExpectedFeed(sync.pages, Len(sync.pages))

C19_Witness ==
    /\ sync.pc = "done" /\ sync.accessToken # "" /\ ~sync.failed
    /\ Len(sync.pages) = MaxPages + 1 /\ Len(sync.sent) = MaxPages + 1
    /\ Len(sync.result) >= 3

\* C20: in every getTransactions call the first provider call carries the
\* empty cursor and each later call carries the next_cursor of the answer
\* before it; a new getTransactions call starts again from the empty cursor.
C20_CursorThreading ==
    /\ \A i \in DOMAIN sync.sent :
          sync.sent[i] = IF i = 1 THEN "" ELSE sync.pages[i - 1].next_cursor
    /\ (sync.pc = "loop" /\ sync.sent # <<>>)
          => sync.cursor = sync.pages[Len(sync.sent)].next_cursor

C20_Witness ==
    /\ sync.n = 2 /\ Len(sync.sent) >= 2
    /\ sync.sent[1] = "" /\ sync.sent[2] # ""
\* C21: when a provider sync call of getTransactions fails, at whatever page
\* and with whatever failure, the call ends there (no further sync call) and
\* returns the empty sequence, whatever the earlier pages held.
C21_FailedSyncReturnsEmpty ==
    sync.failed
    => /\ sync.pc = "done"
       /\ sync.result = <<>>
       /\ sync.error \in SyncErrors

C21_Witness ==
    /\ sync.failed /\ sync.pc = "done"
    /\ Len(sync.sent) = 3 /\ Len(sync.transactions) >= 2
    /\ sync.error.error_code = "ITEM_LOGIN_REQUIRED"

\* C22: what getTransactions returns after a sync call failed with the
\* missing-consent condition differs from what it returns after a successful
\* sync that found no transactions.
C22_ConsentSurfaced ==
    (/\ sync.pc = "done" /\ sync.failed
     /\ sync.error.error_code = "ADDITIONAL_CONSENT_REQUIRED")
    => sync.result # ParseStringify(<<>>)

\* C23: a page whose "added" is not an array adds no entry and does not end
\* the call: the loop takes next_cursor and has_more from it and goes on, and
\* the call returns the entries of the other pages; a call ends early only
\* when the provider call itself failed.
C23_NonArrayAddedNotFatal ==
    /\ sync.failed => sync.error # NoSyncError
    /\ \A i \in DOMAIN sync.sent :
          (~sync.pages[i].addedIsArray /\ ~(sync.failed /\ i = Len(sync.sent)))
          => /\ i < Len(sync.pages) => (Len(sync.sent) > i \/ sync.pc = "loop")
             /\ (sync.pc = "loop" /\ i = Len(sync.sent))
                   => /\ sync.cursor = sync.pages[i].next_cursor
                      /\ sync.hasMore
                      /\ sync.transactions = ExpectedFeed(sync.pages, i - 1)
             /\ i = Len(sync.pages)
                   => sync.pc = "done" /\ sync.result = ExpectedFeed(sync.pages, i - 1)
    /\ (sync.pc = "done" /\ ~sync.failed /\ sync.accessToken # "")
          => Len(sync.result) =
                Len(ExpectedFeed(SelectSeq(sync.pages, LAMBDA pg : pg.addedIsArray),
                                 Len(SelectSeq(sync.pages, LAMBDA pg : pg.addedIsArray))))

C23_Witness ==
    /\ sync.pc = "done" /\ ~sync.failed /\ Len(sync.pages) = 3
    /\ sync.pages[1].addedIsArray /\ ~sync.pages[2].addedIsArray
    /\ sync.pages[3].addedIsArray
    /\ Len(sync.result) = Len(sync.pages[1].added) + Len(sync.pages[3].added)
    /\ Len(sync.pages[1].added) > 0 /\ Len(sync.pages[3].added) > 0
\* C24: every getTransactions call whose provider calls all return comes to
\* its return, whatever has_more values the provider answers.
C24_EveryCallReturns == (sync.pc = "loop") ~> (sync.pc = "done")

\* ------------------------------------------------------ getAccount's feed
AccountReturned == acct.pc = "done" /\ acct.result = "account"

\* The entries getAccount was given, provider transactions and transfer records.
FeedInput == acct.transactions \o acct.transferTransactions

DistinctDates(list) ==
    \A i, j \in DOMAIN list : i # j => GetTime(list[i].date) # GetTime(list[j].date)

AtTime(list, t) == SelectSeq(list, LAMBDA e : GetTime(e.date) = t)

Times(list) == {GetTime(list[i].date) : i \in DOMAIN list}

\* C25: for provider transactions and transfer records with pairwise distinct
\* dates, the feed getAccount returns holds exactly the entries it was given
\* and is ordered most recent first.
C25_FeedNewestFirst ==
    (AccountReturned /\ DistinctDates(FeedInput)) =>
        /\ Len(acct.allTransactions) = Len(FeedInput)
        /\ {acct.allTransactions[i] : i \in DOMAIN acct.allTransactions}
              = {FeedInput[i] : i \in DOMAIN FeedInput}
        /\ \A i, j \in DOMAIN acct.allTransactions :
              i < j => GetTime(acct.allTransactions[i].date)
                         >= GetTime(acct.allTransactions[j].date)

\* Two provider transactions around a transfer record, given oldest first.
C25_Witness ==
    /\ AccountReturned
    /\ DistinctDates(FeedInput)
    /\ Len(acct.transactions) = 2
    /\ Len(acct.transferTransactions) = 1
    /\ GetTime(acct.transactions[1].date) < GetTime(acct.transactions[2].date)
    /\ acct.allTransactions[2] = acct.transferTransactions[1]

\* C26: entries of the returned feed with equal dates keep their input order:
\* for every date, the feed's entries of that date are the provider
\* transactions of that date in their order, then the transfer records of
\* that date in their order.
C26_TiesKeepInputOrder ==
    AccountReturned =>
        \A t \in Times(FeedInput) :
            AtTime(acct.allTransactions, t)
              = AtTime(acct.transactions, t) \o AtTime(acct.transferTransactions, t)

\* Two different provider transactions and two different transfer records,
\* all of the same date.
C26_Witness ==
    /\ AccountReturned
    /\ Len(acct.transactions) = 2
    /\ Len(acct.transferTransactions) = 2
    /\ acct.transactions[1] # acct.transactions[2]
    /\ acct.transferTransactions[1] # acct.transferTransactions[2]
    /\ Cardinality(Times(FeedInput)) = 1
    /\ Len(acct.allTransactions) = 4

\* C27: no transaction id occurs twice in the feed getAccount returns.
C27_FeedDeduplicated ==
    AccountReturned =>
        \A i, j \in DOMAIN acct.allTransactions :
            i # j => acct.allTransactions[i].id # acct.allTransactions[j].id

\* -------------------------------------------------- getAccounts' aggregate
AggReturned == agg.pc = "done" /\ agg.returned = "value"

RECURSIVE SumOver(_, _)
SumOver(f, S) ==
    IF S = {} THEN 0
    ELSE LET i == CHOOSE x \in S : TRUE IN f[i].currentBalance + SumOver(f, S \ {i})

\* C28: when the fetch of one linked bank fails, getAccounts still returns a
\* value, holding the accounts of the banks whose fetch did not fail,
\* totalBanks equal to the number of links and totalCurrentBalance equal to
\* the sum over the accounts returned.
C28_PartialFailureTolerated ==
    (agg.pc = "done" /\ agg.failedBank # 0) =>
        /\ agg.returned = "value"
        /\ agg.totalBanks = Len(agg.banks)
        /\ \A i \in DOMAIN agg.data : agg.data[i].appwriteItemId # agg.failedBank
        /\ agg.totalCurrentBalance = SumOver(agg.data, DOMAIN agg.data)

\* C29: when every fetch succeeds, totalBanks is the number of the user's bank
\* documents and totalCurrentBalance the sum of the current balances of the
\* accounts returned.
C29_TotalsOfAllBanks ==
    AggReturned =>
        /\ agg.totalBanks = Len(banks)
        /\ Len(agg.data) = Len(banks)
        /\ agg.totalCurrentBalance = SumOver(agg.data, DOMAIN agg.data)
        /\ \A i \in DOMAIN agg.data : agg.data[i].currentBalance \in Balances

\* Three banks whose balances are not all the same.
C29_Witness ==
    /\ AggReturned
    /\ Len(banks) = 3
    /\ agg.totalBanks = 3
    /\ agg.data[1].currentBalance # agg.data[3].currentBalance
    /\ agg.totalCurrentBalance = 220

\* C30: the fetches run concurrently, and in whatever order they end the i-th
\* account returned is that of the i-th bank document getBanks returned.
C30_PositionalCollection ==
    AggReturned =>
        /\ Len(agg.data) = Len(agg.banks)
        /\ \A i \in DOMAIN agg.data :
              /\ agg.data[i].appwriteItemId = i
              /\ agg.data[i].shareableId = agg.banks[i].shareableId
              /\ agg.data[i].id = agg.banks[i].accountId

\* Two different banks, the fetch of the second ending before that of the first.
C30_Witness ==
    /\ AggReturned
    /\ Len(agg.banks) >= 2
    /\ agg.banks[1] # agg.banks[2]
    /\ agg.order[1] = 2

\* ----------------------------------------------- exchangePublicToken, again
\* C31: a failed on-demand authorization aborts the link attempt: no funding
\* source is created and no bank document is stored by that call.
C31_AuthorizationFailureAborts ==
    link.authFailed =>
        /\ link.fundingSourceUrl = Absent
        /\ link.docsMade = 0
        /\ Len(banks) = link.banksBefore
        /\ link.result # "complete"

\* C32: exchangePublicToken reports completion only if that call stored a
\* bank document.
C32_CompleteOnlyIfPersisted ==
    (link.pc = "done" /\ link.result = "complete") =>
        /\ link.docsMade = 1
        /\ Len(banks) = link.banksBefore + 1
        /\ banks[Len(banks)] = BankDocument(link)

\* ------------------------------------------------ getAccount's feed, again
Occurrences(list, e) == Cardinality({i \in DOMAIN list : list[i] = e})

\* The transfer records of the bank, as feed entries.
TransferEntries ==
    [i \in DOMAIN acct.transferDocs |-> TransferEntry(acct.transferDocs[i], acct.bank)]

\* C33: when getTransactions yields the empty list and every other lookup
\* succeeds, getAccount returns the account with a feed made of exactly the
\* bank's transfer records, most recent first.
C33_FeedOfTransfersOnly ==
    (acct.pc = "done" /\ acct.accountData /\ acct.institution
        /\ acct.failedStep = "" /\ acct.transactions = <<>>) =>
        /\ acct.result = "account"
        /\ Len(acct.allTransactions) = Len(acct.transferDocs)
        /\ \A i \in DOMAIN TransferEntries :
              Occurrences(acct.allTransactions, TransferEntries[i])
                = Occurrences(TransferEntries, TransferEntries[i])
        /\ \A i \in 1..(Len(acct.allTransactions) - 1) :
              GetTime(acct.allTransactions[i].date)
                >= GetTime(acct.allTransactions[i + 1].date)

\* No provider transaction, two transfer records found oldest first.
C33_Witness ==
    /\ AccountReturned
    /\ acct.transactions = <<>>
    /\ Len(acct.transferDocs) = 2
    /\ GetTime(acct.transferDocs[1].createdAt) < GetTime(acct.transferDocs[2].createdAt)
    /\ acct.allTransactions[1].id = acct.transferDocs[2].id

\* C34: the feed getAccount returns is a permutation of the provider
\* transactions followed by the transfer records: as long as the two lists
\* together, every entry occurring as often as in them.
C34_FeedIsPermutation ==
    AccountReturned =>
        /\ Len(acct.allTransactions) = Len(acct.transactions) + Len(acct.transferDocs)
        /\ \A i \in DOMAIN acct.allTransactions :
              Occurrences(acct.allTransactions, acct.allTransactions[i])
                = Occurrences(acct.transactions \o TransferEntries, acct.allTransactions[i])

\* The same provider transaction twice and two transfer records, one of the
\* provider transaction's date.
C34_Witness ==
    /\ AccountReturned
    /\ Len(acct.transactions) = 2
    /\ acct.transactions[1] = acct.transactions[2]
    /\ Len(acct.transferDocs) = 2
    /\ \E i \in DOMAIN acct.transferDocs :
          GetTime(acct.transferDocs[i].createdAt) = GetTime(acct.transactions[1].date)
    /\ Len(acct.allTransactions) = 4

\* ----------------------------------------------- createDwollaCustomer, again
\* C35: when the provider's error has no body and its message is a JSON text
\* that embeds a list of field errors, createDwollaCustomer throws the
\* validation error listing the "field: message" pairs of that list.
C35_JsonMessageValidationError ==
    (dw.pc = "done" /\ dw.resp.kind = "error" /\ ~dw.resp.hasBody
        /\ dw.resp.jsonErrors # <<>>) =>
        /\ dw.threw
        /\ dw.error.message =
              ValidationPrefix \o ExpectedJoin(dw.resp.jsonErrors, Len(dw.resp.jsonErrors))

\* ------------------------------------------------------- AuthForm, again
IsValidationError(e) ==
    /\ Len(e.message) > Len(ValidationPrefix)
    /\ SubSeq(e.message, 1, Len(ValidationPrefix)) = ValidationPrefix

\* C36: for a validation error the form shows the error's text without its
\* prefix and otherwise unchanged, every "field: message" pair included.
C36_ValidationTextPassedThrough ==
    (form.pc = "shown" /\ IsValidationError(form.thrown)) =>
        form.errorMessage =
            SubSeq(form.thrown.message, Len(ValidationPrefix) + 1, Len(form.thrown.message))

\* C37: createDwollaCustomer returns a location that is present, or throws an
\* error with a message; whenever the customer request fails or its answer has
\* no location, it throws.
C37_LocationOrError ==
    dw.pc = "done" =>
        /\ dw.threw => dw.error.message # <<>>
        /\ ~dw.threw => (dw.resp.kind = "created" /\ dw.resp.location)
        /\ (dw.resp.kind = "error" \/ ~dw.resp.location) => dw.threw

\* The provider answered without a location header.
C37_Witness ==
    /\ dw.pc = "done"
    /\ dw.resp = RespNoLocation
    /\ dw.threw
    /\ dw.error.message = DwollaFailedPrefix \o MsgNoLocation

\* ---------------------------------------------------------- signIn, again
\* C38: signIn throws the profile-data-missing error only if the authenticated
\* principal has no profile document.
C38_ProfileMissingOnlyWithoutDocument ==
    \A p \in Procs :
        (Finished(p, "signIn") /\ proc[p].result.kind = "error"
            /\ proc[p].result.error.message = MsgProfileMissing) =>
            /\ ~proc[p].docExisted
            /\ DocsOf(proc[p].sessionUser) = {}

\* ------------------------------------------------------ AuthForm's loading
SubmitInFlight == form.pc \in {"submitted", "awaiting", "caught"}

\* C39: while a submit is in flight isLoading is true and the submit button
\* disabled; every submit, whether the server action returns a user, returns
\* nothing or raises, ends with isLoading false.
C39_LoadingCleared ==
    /\ [](SubmitInFlight => (form.isLoading /\ SubmitDisabled))
    /\ [](form.pc \in {"shown", "settled"} => ~form.isLoading)
    /\ SubmitInFlight ~> (form.pc \in {"shown", "settled"} /\ ~form.isLoading)

\* A second submit has ended, after an error was shown for the first.
C39_Witness ==
    /\ form.n = 2
    /\ form.pc = "shown"
    /\ form.type = "sign-up"
    /\ form.errorMessage = MsgFormState
    /\ ~form.isLoading

\* ------------------------------------------------ transaction-history page
TableShown == hist.pc = "done" /\ hist.view = "table"

\* The entries at positions (p-1)*10 to min(p*10, n)-1 of the feed.
PageOf(p) ==
    LET n == Len(hist.transactions)
        last == IF p * 10 < n THEN p * 10 ELSE n
    IN  [i \in 1..(last - (p - 1) * 10) |-> hist.transactions[(p - 1) * 10 + i]]

\* C40: with 10 rows per page, totalPages is ceil(n/10); a page number p in
\* 1..totalPages shows the entries at positions (p-1)*10 to min(p*10, n)-1 in
\* feed order; whatever the page parameter, the table shows one of these
\* pages or nothing.
C40_PagesOfTen ==
    TableShown =>
        LET n == Len(hist.transactions) IN
        /\ hist.totalPages * 10 >= n
        /\ (hist.totalPages - 1) * 10 < n \/ (n = 0 /\ hist.totalPages = 0)
        /\ (hist.param.kind = "number" /\ hist.param.value \in 1..hist.totalPages)
              => hist.currentTransactions = PageOf(hist.param.value)
        /\ \/ hist.currentTransactions = <<>>
           \/ \E p \in 1..hist.totalPages : hist.currentTransactions = PageOf(p)

====
